---- MODULE Spec2Model ----
(***************************************************************************)
(* A model of the feature-extraction core of geometry_common               *)
(* (src/src/Utils.cpp, src/src/LineSegment2D.cpp): clustering, RANSAC and  *)
(* regression fitters, piecewise segmentation and segment consolidation.   *)
(*                                                                         *)
(* Numbers.  The code computes in float.  The model computes in exact      *)
(* rational arithmetic: a number is a pair <<n, d>> in lowest terms with   *)
(* d > 0.  Inputs are drawn from small integer grids, so no rounding takes *)
(* place in the quantities the model compares.                             *)
(*                                                                         *)
(* Indices.  TLA+ sequences are 1-based: the C++ index i is the model's    *)
(* index i + 1.  Where the code copies points into a list                  *)
(* (remaining_points, fringe, cluster) the model keeps the position of the *)
(* copied point in the input; the copy's coordinates are pts[position].    *)
(***************************************************************************)
EXTENDS Integers, Sequences, FiniteSets, TLC

VARIABLES
    pts,    \* the point cloud handed to the call (PointCloud2D)
    lines,  \* the line_segments vector a merge pass works on
    par,    \* the other arguments of the call
    pc,     \* where the call is: "call", a loop label, or "done"
    loc,    \* the locals of the running call
    ret     \* what the call returned

vars == <<pts, lines, par, pc, loc, ret>>

(***************************************************************************)
(* Exact arithmetic                                                        *)
(***************************************************************************)
Abs(i) == IF i < 0 THEN -i ELSE i

RECURSIVE GCD(_, _)
GCD(a, b) == IF b = 0 THEN a ELSE GCD(b, a % b)

\* the rational n/d in lowest terms, d > 0
Rat(n, d) ==
    IF d = 1 THEN <<n, 1>>
    ELSE LET g == GCD(Abs(n), Abs(d))
             s == IF d < 0 THEN -1 ELSE 1
         IN  <<(s * n) \div g, (s * d) \div g>>

RI(i) == <<i, 1>>
Zero == RI(0)
One == RI(1)
\* Sums go over the least common denominator, products are reduced across
\* before multiplying and comparisons look at the integer parts first, to
\* keep every intermediate value small.  Each operator takes the value of
\* its arguments once (x \in {a}) before it works on them.
RAdd(a, b) ==
    CHOOSE r \in {IF x[2] = 1 /\ y[2] = 1 THEN <<x[1] + y[1], 1>>
                  ELSE LET g == GCD(x[2], y[2])
                       IN  Rat(x[1] * (y[2] \div g) + y[1] * (x[2] \div g),
                               (x[2] \div g) * y[2]) :
                  x \in {a}, y \in {b}} : TRUE
RNeg(a) == CHOOSE r \in {<<-x[1], x[2]>> : x \in {a}} : TRUE
RSub(a, b) == RAdd(a, RNeg(b))
RMul(a, b) ==
    CHOOSE r \in {IF x[2] = 1 /\ y[2] = 1 THEN <<x[1] * y[1], 1>>
                  ELSE LET g1 == GCD(Abs(x[1]), y[2])
                           g2 == GCD(Abs(y[1]), x[2])
                       IN  <<(x[1] \div g1) * (y[1] \div g2),
                             (x[2] \div g2) * (y[2] \div g1)>> :
                  x \in {a}, y \in {b}} : TRUE
RDiv(a, b) ==
    CHOOSE r \in {RMul(a, IF y[1] < 0 THEN <<-y[2], -y[1]>> ELSE <<y[2], y[1]>>) :
                  y \in {b}} : TRUE
\* n1/d1 < n2/d2 for d1, d2 > 0: by the integer parts, and when these are
\* equal by the reciprocals of the fractional parts, so that no product is
\* formed
RECURSIVE LtParts(_, _, _, _)
LtParts(n1, d1, n2, d2) ==
    LET q1 == n1 \div d1
        q2 == n2 \div d2
        r1 == n1 % d1
        r2 == n2 % d2
    IN  IF q1 # q2 THEN q1 < q2
        ELSE IF r2 = 0 THEN FALSE
        ELSE IF r1 = 0 THEN TRUE
        ELSE LtParts(d2, r2, d1, r1)

RLt(a, b) ==
    \E x \in {a}, y \in {b} :
        IF x[2] = 1 /\ y[2] = 1 THEN x[1] < y[1]
        ELSE LtParts(x[1], x[2], y[1], y[2])
RLe(a, b) == ~RLt(b, a)
RAbs(a) == CHOOSE r \in {<<Abs(x[1]), x[2]>> : x \in {a}} : TRUE
RSq(a) == CHOOSE r \in {RMul(x, x) : x \in {a}} : TRUE

(***************************************************************************)
(* Point2D                                                                 *)
(***************************************************************************)
Point2D(x, y) == [x |-> x, y |-> y]
Pt(i, j) == Point2D(RI(i), RI(j))
Origin == Pt(0, 0)

PSub(a, b) ==
    CHOOSE r \in {Point2D(RSub(p.x, q.x), RSub(p.y, q.y)) : p \in {a}, q \in {b}} : TRUE
PAdd(a, b) ==
    CHOOSE r \in {Point2D(RAdd(p.x, q.x), RAdd(p.y, q.y)) : p \in {a}, q \in {b}} : TRUE
PScale(a, k) ==
    CHOOSE r \in {Point2D(RMul(p.x, c), RMul(p.y, c)) : p \in {a}, c \in {k}} : TRUE
dotProduct(a, b) ==
    CHOOSE r \in {RAdd(RMul(p.x, q.x), RMul(p.y, q.y)) : p \in {a}, q \in {b}} : TRUE
scalarCrossProduct(a, b) ==
    CHOOSE r \in {RSub(RMul(p.x, q.y), RMul(p.y, q.x)) : p \in {a}, q \in {b}} : TRUE
squaredDistTo(a, b) ==
    CHOOSE r \in {RAdd(RSq(RSub(p.x, q.x)), RSq(RSub(p.y, q.y))) :
                  p \in {a}, q \in {b}} : TRUE

\* a.distTo(b) < t.  distTo is the square root of squaredDistTo, which the
\* model does not form: for t > 0 the test is squaredDistTo < t * t, and for
\* t <= 0 it is false of every distance.
DistBelow(a, b, t) == RLt(Zero, t) /\ RLt(squaredDistTo(a, b), RSq(t))

(***************************************************************************)
(* Sequences                                                               *)
(***************************************************************************)
Last(s) == s[Len(s)]
Front(s) == SubSeq(s, 1, Len(s) - 1)
Range(s) == {s[i] : i \in 1..Len(s)}

RECURSIVE SeqsUpTo(_, _)
SeqsUpTo(S, n) ==
    IF n = 0 THEN {<<>>}
    ELSE LET shorter == SeqsUpTo(S, n - 1)
         IN  shorter \cup {Append(s, e) : s \in {t \in shorter : Len(t) = n - 1}, e \in S}

RECURSIVE Concat(_)
Concat(ss) == IF ss = <<>> THEN <<>> ELSE Head(ss) \o Concat(Tail(ss))

(***************************************************************************)
(* Clustering: Utils::clusterPoints, Utils::clusterOrderedPoints           *)
(***************************************************************************)
\* threshold_dist_sq = std::pow(cluster_distance_threshold, 2)
threshold_dist_sq(cluster_distance_threshold) == RSq(cluster_distance_threshold)

\* point.squaredDistTo(*pt) < threshold_dist_sq, on positions i, j of cloud p
Near(p, i, j, t_sq) == RLt(squaredDistTo(p[i], p[j]), t_sq)

\* if ( cluster.size() > min_cluster_size ) clusters.push_back(cluster)
KeepClusterMutMoreThanOne(cluster, min_cluster_size) ==
    Len(cluster) > min_cluster_size + 1

KeepCluster(cluster, min_cluster_size) == Len(cluster) > min_cluster_size

PushIfKept(clusters, cluster, min_cluster_size) ==
    IF KeepCluster(cluster, min_cluster_size) THEN Append(clusters, cluster)
    ELSE clusters

\* clusterPoints, the loop "while ( !fringe.empty() )": pop the fringe's front
\* into the cluster and move every remaining point near it to the fringe's back.
RECURSIVE ExpandFringeMutSeedOnly(_, _, _, _, _)
ExpandFringeMutSeedOnly(p, cluster, fringe, remaining, t_sq) ==
    IF fringe = <<>> THEN [cluster |-> cluster, remaining |-> remaining]
    ELSE LET point == Head(fringe)
             seed == IF cluster = <<>> THEN point ELSE Head(cluster)
             near == SelectSeq(remaining, LAMBDA q : Near(p, seed, q, t_sq))
             far == SelectSeq(remaining, LAMBDA q : ~Near(p, seed, q, t_sq))
         IN  ExpandFringeMutSeedOnly(p, Append(cluster, point), Tail(fringe) \o near,
                                     far, t_sq)

RECURSIVE ExpandFringe(_, _, _, _, _)
ExpandFringe(p, cluster, fringe, remaining, t_sq) ==
    IF fringe = <<>> THEN [cluster |-> cluster, remaining |-> remaining]
    ELSE LET point == Head(fringe)
             near == SelectSeq(remaining, LAMBDA q : Near(p, point, q, t_sq))
             far == SelectSeq(remaining, LAMBDA q : ~Near(p, point, q, t_sq))
         IN  ExpandFringe(p, Append(cluster, point), Tail(fringe) \o near, far, t_sq)

\* clusterOrderedPoints, the loop over remaining_points: a point near
\* cluster.back() is moved to the cluster, any other point is stepped over
\* (++pt) and the scan goes on to the end of the list.
RECURSIVE ScanOrdered(_, _, _, _)
ScanOrdered(p, cluster, remaining, t_sq) ==
    IF remaining = <<>> THEN [cluster |-> cluster, remaining |-> <<>>]
    ELSE LET q == Head(remaining)
         IN  IF Near(p, Last(cluster), q, t_sq)
             THEN ScanOrdered(p, Append(cluster, q), Tail(remaining), t_sq)
             ELSE LET r == ScanOrdered(p, cluster, Tail(remaining), t_sq)
                  IN  [cluster |-> r.cluster, remaining |-> <<q>> \o r.remaining]

\* the "for 360 degree laser points" step of clusterOrderedPoints
WrapAround(p, clusters, t_sq) ==
    IF Len(clusters) > 1 /\ Near(p, Head(Head(clusters)), Last(Last(clusters)), t_sq)
    THEN <<Last(clusters) \o Head(clusters)>> \o SubSeq(clusters, 2, Len(clusters) - 1)
    ELSE clusters

\* the points of a cluster of positions
ClusterPoints(p, cluster) == [k \in 1..Len(cluster) |-> p[cluster[k]]]

(***************************************************************************)
(* The clustering calls                                                    *)
(***************************************************************************)
MaxClusterPts == 4
MaxMinClusterSize == 2
\* the positions the clouds are drawn from: a row with a gap, and two points
\* above it; and the thresholds: 1 (unit neighbours are not within it) and
\* 5/4 (unit neighbours are, diagonal neighbours are not)
ClusterCloud == {Pt(0, 0), Pt(1, 0), Pt(2, 0), Pt(4, 0), Pt(0, 1), Pt(2, 1)}
ClusterThresholds == {RI(1), Rat(5, 4)}

NoLocals == [fn |-> "none"]
NoReturn == [fn |-> "none"]

InitCluster ==
    /\ pts \in SeqsUpTo(ClusterCloud, MaxClusterPts)
    /\ lines = <<>>
    /\ par \in [cluster_distance_threshold : ClusterThresholds,
                min_cluster_size : 0..MaxMinClusterSize]
    /\ pc = "call"
    /\ loc = NoLocals
    /\ ret = NoReturn

\* entry of clusterPoints / clusterOrderedPoints: populate remaining_points.
\* found is history: every cluster the loop built, kept or not.
EnterClustering(fn) ==
    /\ pc = "call"
    /\ pc' = fn
    /\ loc' = [fn |-> fn,
               remaining_points |-> [i \in 1..Len(pts) |-> i],
               clusters |-> <<>>,
               found |-> <<>>]
    /\ UNCHANGED <<pts, lines, par, ret>>

CallClusterPoints == EnterClustering("clusterPoints")

CallClusterOrderedPoints == EnterClustering("clusterOrderedPoints")

\* one iteration of "while ( !remaining_points.empty() )" of clusterPoints
ClusterPointsIter ==
    /\ pc = "clusterPoints"
    /\ loc.remaining_points # <<>>
    /\ LET r == ExpandFringe(pts, <<>>, <<Head(loc.remaining_points)>>,
                             Tail(loc.remaining_points),
                             threshold_dist_sq(par.cluster_distance_threshold))
       IN  loc' = [loc EXCEPT !.remaining_points = r.remaining,
                              !.clusters = PushIfKept(@, r.cluster, par.min_cluster_size),
                              !.found = Append(@, r.cluster)]
    /\ UNCHANGED <<pts, lines, par, pc, ret>>

ClusterPointsReturn ==
    /\ pc = "clusterPoints"
    /\ loc.remaining_points = <<>>
    /\ ret' = [fn |-> "clusterPoints", clusters |-> loc.clusters]
    /\ pc' = "done"
    /\ UNCHANGED <<pts, lines, par, loc>>

\* one iteration of "while ( !remaining_points.empty() )" of clusterOrderedPoints
ClusterOrderedIter ==
    /\ pc = "clusterOrderedPoints"
    /\ loc.remaining_points # <<>>
    /\ LET r == ScanOrdered(pts, <<Head(loc.remaining_points)>>,
                            Tail(loc.remaining_points),
                            threshold_dist_sq(par.cluster_distance_threshold))
       IN  loc' = [loc EXCEPT !.remaining_points = r.remaining,
                              !.clusters = PushIfKept(@, r.cluster, par.min_cluster_size),
                              !.found = Append(@, r.cluster)]
    /\ UNCHANGED <<pts, lines, par, pc, ret>>

\* after the pass: the wrap-around merge, then return
ClusterOrderedReturn ==
    /\ pc = "clusterOrderedPoints"
    /\ loc.remaining_points = <<>>
    /\ ret' = [fn |-> "clusterOrderedPoints",
               clusters |-> WrapAround(pts, loc.clusters,
                                threshold_dist_sq(par.cluster_distance_threshold))]
    /\ pc' = "done"
    /\ UNCHANGED <<pts, lines, par, loc>>

NextCluster ==
    \/ CallClusterPoints
    \/ CallClusterOrderedPoints
    \/ ClusterPointsIter
    \/ ClusterPointsReturn
    \/ ClusterOrderedIter
    \/ ClusterOrderedReturn

SpecCluster == InitCluster /\ [][NextCluster]_vars

(***************************************************************************)
(* Claims about clustering                                                 *)
(***************************************************************************)
InClustering == pc # "call" /\ loc.fn \in {"clusterPoints", "clusterOrderedPoints"}

\* the claims' own reading of "within the threshold": squared distance
\* strictly below the squared threshold
ClaimNear(i, j) ==
    RLt(squaredDistTo(pts[i], pts[j]), RSq(par.cluster_distance_threshold))

\* C2: in clusterPoints and clusterOrderedPoints a cluster the loop built is
\* left out of the clusters vector if and only if it has strictly fewer than
\* min_cluster_size points (so a cluster of exactly min_cluster_size is kept).
C2_DroppedIffBelowMin ==
    InClustering =>
        \A k \in 1..Len(loc.found) :
            (loc.found[k] \notin Range(loc.clusters))
                <=> (Len(loc.found[k]) < par.min_cluster_size)

\* the connected component of position i in the proximity graph of the input
RECURSIVE Grow(_)
Grow(S) ==
    LET T == S \cup {j \in 1..Len(pts) : \E k \in S : ClaimNear(k, j)}
    IN  IF T = S THEN S ELSE Grow(T)

Component(i) == Grow({i})

SameCluster(clusters, i, j) ==
    \E k \in 1..Len(clusters) : i \in Range(clusters[k]) /\ j \in Range(clusters[k])

ClusterPointsDoneMinZero ==
    pc = "done" /\ ret.fn = "clusterPoints" /\ par.min_cluster_size = 0

\* C3: with min_cluster_size = 0 clusterPoints returns a partition of the
\* input (every input position in exactly one cluster, once) whose blocks are
\* the connected components of the proximity graph.
C3_PartitionIntoComponents ==
    ClusterPointsDoneMinZero =>
        /\ Len(Concat(ret.clusters)) = Len(pts)
        /\ Range(Concat(ret.clusters)) = 1..Len(pts)
        /\ \A i, j \in 1..Len(pts) :
               SameCluster(ret.clusters, i, j) <=> (j \in Component(i))

\* C3 witness: two clusters are returned and one of them joins two points that
\* are linked only through a chain
C3_Witness ==
    /\ ClusterPointsDoneMinZero
    /\ Len(ret.clusters) >= 2
    /\ \E i, j \in 1..Len(pts) :
           SameCluster(ret.clusters, i, j) /\ ~ClaimNear(i, j)

C5_WrapMergesFirstAndLastFound ==
    (pc = "done" /\ ret.fn = "clusterOrderedPoints") =>
        IF /\ Len(loc.found) > 1
           /\ ClaimNear(Last(Last(loc.found)), Head(Head(loc.found)))
        THEN (Last(loc.found) \o Head(loc.found)) \in Range(ret.clusters)
        ELSE Range(ret.clusters) \subseteq Range(loc.found)

(***************************************************************************)
(* LineSegment2D and the geometry the merge passes use                     *)
(***************************************************************************)
LineSegment2D(start, end) == [start |-> start, end |-> end]

\* x < 1 / (k1 * k2), for a bound too small to write as one number
BelowInverse(x, k1, k2) == x[1] <= ((x[2] - 1) \div k1) \div k2

TenPow5 == 100000

\* The direction whose atan2 is LineSegment2D::angle().  std::atan2(0, 0) is 0,
\* so a segment with start = end has the direction of the x axis.
Direction(l) ==
    LET diff == PSub(l.end, l.start)
    IN  IF diff = Origin THEN Point2D(One, Zero) ELSE diff

\* std::fabs(Utils::calcShortestAngle(l1.angle(), l2.angle())) < angle_threshold.
\* calcShortestAngle is atan2(sin(a1 - a2), cos(a1 - a2)): the signed angle phi
\* in [-pi, pi] between the two directions u and v, with u.v = |u||v| cos phi
\* and u x v = |u||v| sin phi.  The model names an angle_threshold in (0, pi/2)
\* by its tangent; then |phi| < angle_threshold iff cos phi > 0 and
\* |tan phi| < tan angle_threshold, i.e. u.v > 0 and |u x v| < tan * (u.v).
AngularDistBelow(l1, l2, angle_threshold_tan) ==
    LET u == Direction(l1)
        v == Direction(l2)
    IN  /\ RLt(Zero, dotProduct(u, v))
        /\ RLt(RAbs(scalarCrossProduct(u, v)),
               RMul(angle_threshold_tan, dotProduct(u, v)))

\* Utils::clip(value, max_limit, min_limit)
clip(value, max_limit, min_limit) ==
    LET lo == IF RLt(max_limit, value) THEN max_limit ELSE value
    IN  IF RLt(lo, min_limit) THEN min_limit ELSE lo

\* Utils::calcProjectedPointOnLine(line_start, line_end, p, is_segment)
calcProjectedPointOnLine(line_start, line_end, p, is_segment) ==
    LET length_sq == squaredDistTo(line_start, line_end)
    IN  IF BelowInverse(length_sq, TenPow5, TenPow5) THEN line_start
        ELSE LET p_vec == PSub(p, line_start)
                 line_vec == PSub(line_end, line_start)
                 t0 == RDiv(dotProduct(p_vec, line_vec), length_sq)
                 t == IF is_segment THEN clip(t0, One, Zero) ELSE t0
             IN  PAdd(line_start, PScale(line_vec, t))

\* Utils::calcSquaredDistToLine(a, b, p, is_segment)
calcSquaredDistToLine(a, b, p, is_segment) ==
    squaredDistTo(p, calcProjectedPointOnLine(a, b, p, is_segment))

\* LineSegment2D::squaredMinDistTo(p)
squaredMinDistTo(l, p) == calcSquaredDistToLine(l.start, l.end, p, TRUE)

(***************************************************************************)
(* Segment consolidation: Utils::mergeCloseLines, Utils::mergeCoLinearLines *)
(***************************************************************************)
\* mergeCloseLines, the test on line_segments[i] and line_segments[i+1]
CloseLinesCond(l1, l2, distance_threshold, angle_threshold) ==
    /\ DistBelow(l1.end, l2.start, distance_threshold)
    /\ AngularDistBelow(l1, l2, angle_threshold)

MergeIntoMutKeepEnd(ls, i, j) == SubSeq(ls, 1, j - 1) \o SubSeq(ls, j + 1, Len(ls))

\* line_segments[i].end = line_segments[j].end; line_segments.erase(begin() + j)
MergeInto(ls, i, j) ==
    LET grown == [ls EXCEPT ![i].end = ls[j].end]
    IN  SubSeq(grown, 1, j - 1) \o SubSeq(grown, j + 1, Len(grown))

\* mergeCloseLines, the loop "while ( i < line_segments.size()-1 )"
RECURSIVE mergeCloseLinesFrom(_, _, _, _)
mergeCloseLinesFrom(ls, i, distance_threshold, angle_threshold) ==
    IF ~(i < Len(ls)) THEN ls
    ELSE IF CloseLinesCond(ls[i], ls[i + 1], distance_threshold, angle_threshold)
         THEN CHOOSE merged \in
                  {mergeCloseLinesFrom(grown, i, distance_threshold, angle_threshold) :
                      grown \in {MergeInto(ls, i, i + 1)}} : TRUE
         ELSE mergeCloseLinesFrom(ls, i + 1, distance_threshold, angle_threshold)

mergeCloseLines(ls, distance_threshold, angle_threshold) ==
    IF Len(ls) < 2 THEN ls
    ELSE mergeCloseLinesFrom(ls, 1, distance_threshold, angle_threshold)

\* mergeCoLinearLines, the test on line_segments[i] and line_segments[j]
CoLinearCond(li, lj, distance_threshold, angle_threshold, perp_dist_threshold) ==
    LET start_proj_pt == calcProjectedPointOnLine(li.start, li.end, lj.start, FALSE)
        end_proj_pt == calcProjectedPointOnLine(li.start, li.end, lj.end, FALSE)
    IN  /\ DistBelow(li.end, lj.start, distance_threshold)
        /\ AngularDistBelow(li, lj, angle_threshold)
        /\ DistBelow(start_proj_pt, lj.start, perp_dist_threshold)
        /\ DistBelow(end_proj_pt, lj.end, perp_dist_threshold)

\* the pairs (i, j) the two for loops of mergeCoLinearLines visit
CoLinearPairsMutForward(n) == {q \in (1..n) \X (1..n) : q[1] < q[2]}
CoLinearPairs(n) == {q \in (1..n) \X (1..n) : q[1] # q[2]}

\* the first pair, in the order of the loops (i outer, j inner), that passes
\* the test; <<0, 0>> when the scan ends with merged_lines = false
FirstCoLinearPair(ls, distance_threshold, angle_threshold, perp_dist_threshold) ==
    LET Q == {q \in CoLinearPairs(Len(ls)) :
                 CoLinearCond(ls[q[1]], ls[q[2]], distance_threshold,
                              angle_threshold, perp_dist_threshold)}
    IN  IF Q = {} THEN <<0, 0>>
        ELSE CHOOSE q \in Q :
                 \A r \in Q : q[1] < r[1] \/ (q[1] = r[1] /\ q[2] <= r[2])

(***************************************************************************)
(* The merge calls                                                         *)
(***************************************************************************)
MaxSegs == 3
MaxCalls == 2
\* end points of the segments, and the thresholds: distances 1 and 3/2,
\* angles pi/4 and atan 3 (by their tangents), perpendicular distance 3/4
MergePoints == {Pt(0, 0), Pt(1, 0), Pt(1, 1), Pt(2, 2)}
MergeSegments == {LineSegment2D(a, b) : a \in MergePoints, b \in MergePoints}
DistanceThresholds == {RI(1), Rat(3, 2)}
AngleThresholds == {RI(1), RI(3)}
PerpDistThresholds == {Rat(3, 4)}

InitMerge ==
    /\ pts = <<>>
    /\ lines \in SeqsUpTo(MergeSegments, MaxSegs)
    /\ par \in [distance_threshold : DistanceThresholds,
                angle_threshold : AngleThresholds]
    /\ pc = "call"
    /\ loc = NoLocals
    /\ ret = NoReturn

MaxCoSegs == 3
CoLinearPoints == {Pt(0, 0), Pt(1, 0), Pt(1, 1)}
CoLinearSegments == {LineSegment2D(a, b) : a \in CoLinearPoints, b \in CoLinearPoints}

InitCoLinear ==
    /\ pts = <<>>
    /\ lines \in SeqsUpTo(CoLinearSegments, MaxCoSegs)
    /\ par \in [distance_threshold : DistanceThresholds,
                angle_threshold : AngleThresholds,
                perp_dist_threshold : PerpDistThresholds]
    /\ pc = "call"
    /\ loc = NoLocals
    /\ ret = NoReturn

\* mergeCloseLines(line_segments, distance_threshold, angle_threshold), called
\* on the caller's vector, and again on its own output
CallMergeCloseLines ==
    /\ \/ pc = "call"
       \/ pc = "done" /\ ret.fn = "mergeCloseLines" /\ ret.calls < MaxCalls
    /\ lines' = mergeCloseLines(lines, par.distance_threshold, par.angle_threshold)
    /\ ret' = [fn |-> "mergeCloseLines",
               calls |-> IF pc = "call" THEN 1 ELSE ret.calls + 1,
               before |-> lines]
    /\ pc' = "done"
    /\ UNCHANGED <<pts, par, loc>>

\* entry of mergeCoLinearLines
CallMergeCoLinearLines ==
    /\ pc = "call"
    /\ IF Len(lines) < 2
       THEN /\ pc' = "done"
            /\ ret' = [fn |-> "mergeCoLinearLines", merges |-> 0]
            /\ loc' = loc
       ELSE /\ pc' = "mergeCoLinearLines"
            /\ loc' = [fn |-> "mergeCoLinearLines", merges |-> 0,
                       before |-> lines, pair |-> <<0, 0>>]
            /\ ret' = ret
    /\ UNCHANGED <<pts, lines, par>>

\* one round of "while ( true )" that merges: the scan stops at the first pair
\* that passes the test, merges it and starts over.  before and pair are
\* history: the list the round scanned and the pair it merged.
CoLinearMerge ==
    /\ pc = "mergeCoLinearLines"
    /\ LET q == FirstCoLinearPair(lines, par.distance_threshold,
                                  par.angle_threshold, par.perp_dist_threshold)
       IN  /\ q # <<0, 0>>
           /\ lines' = MergeInto(lines, q[1], q[2])
           /\ loc' = [loc EXCEPT !.merges = @ + 1, !.before = lines, !.pair = q]
    /\ UNCHANGED <<pts, par, pc, ret>>

\* the round that merges nothing: return
CoLinearReturn ==
    /\ pc = "mergeCoLinearLines"
    /\ FirstCoLinearPair(lines, par.distance_threshold,
                         par.angle_threshold, par.perp_dist_threshold) = <<0, 0>>
    /\ pc' = "done"
    /\ ret' = [fn |-> "mergeCoLinearLines", merges |-> loc.merges]
    /\ UNCHANGED <<pts, lines, par, loc>>

NextMerge ==
    \/ CallMergeCloseLines

SpecMerge == InitMerge /\ [][NextMerge]_vars

NextCoLinear ==
    \/ CallMergeCoLinearLines
    \/ CoLinearMerge
    \/ CoLinearReturn

SpecCoLinear == InitCoLinear /\ [][NextCoLinear]_vars

(***************************************************************************)
(* Claims about segment consolidation                                      *)
(***************************************************************************)
\* C6: mergeCloseLines is idempotent: applied again, with the same thresholds,
\* to its own output it leaves the list unchanged.
C6_MergeCloseLinesIdempotent ==
    (pc = "done" /\ ret.fn = "mergeCloseLines" /\ ret.calls >= 2) =>
        lines = ret.before

\* the merge conditions of mergeCoLinearLines as the claim states them, on the
\* ordered pair (li, lj)
ClaimCoLinear(li, lj) ==
    /\ DistBelow(li.end, lj.start, par.distance_threshold)
    /\ AngularDistBelow(li, lj, par.angle_threshold)
    /\ DistBelow(calcProjectedPointOnLine(li.start, li.end, lj.start, FALSE),
                 lj.start, par.perp_dist_threshold)
    /\ DistBelow(calcProjectedPointOnLine(li.start, li.end, lj.end, FALSE),
                 lj.end, par.perp_dist_threshold)

ClaimQualifies(ls, q) == q[1] # q[2] /\ ClaimCoLinear(ls[q[1]], ls[q[2]])

\* C7: when mergeCoLinearLines returns no ordered pair of distinct segments
\* left in the list satisfies all merge conditions; and every merge is of the
\* first qualifying pair of a scan that started over from the first pair.
C7_CoLinearFixedPoint ==
    /\ (pc = "done" /\ ret.fn = "mergeCoLinearLines") =>
           \A i, j \in 1..Len(lines) : ~ClaimQualifies(lines, <<i, j>>)
    /\ (pc = "mergeCoLinearLines" /\ loc.merges > 0) =>
           /\ ClaimQualifies(loc.before, loc.pair)
           /\ \A i, j \in 1..Len(loc.before) :
                  (i < loc.pair[1] \/ (i = loc.pair[1] /\ j < loc.pair[2]))
                      => ~ClaimQualifies(loc.before, <<i, j>>)

\* C7 witness: mergeCoLinearLines returned after two merges, the second of a
\* pair (i, j) with j before i in the list
C7_Witness ==
    /\ pc = "done" /\ ret.fn = "mergeCoLinearLines"
    /\ ret.merges = 2
    /\ loc.pair[2] < loc.pair[1]

(***************************************************************************)
(* Deterministic line regression: Utils::fitLineRegression                 *)
(* Index arguments keep their C++ values (0-based): the point with index i *)
(* is PointAt(p, i).                                                       *)
(***************************************************************************)
PointAt(p, i) == p[i + 1]

TenPow4 == 10000

RECURSIVE SumPoints(_, _, _)
SumPoints(p, i, end_index) ==
    IF i > end_index THEN Origin
    ELSE PAdd(PointAt(p, i), SumPoints(p, i + 1, end_index))

\* Utils::calcMeanPoint(points, start_index, end_index)
calcMeanPoint(p, start_index, end_index) ==
    PScale(SumPoints(p, start_index, end_index),
           RDiv(One, RI(end_index - start_index + 1)))

RMin(S) == CHOOSE a \in S : \A b \in S : RLe(a, b)
RMax(S) == CHOOSE a \in S : \A b \in S : RLe(b, a)

\* the sum of a sequence of numbers
RECURSIVE RSum(_)
RSum(s) == IF s = <<>> THEN Zero ELSE RAdd(s[1], RSum(Tail(s)))

\* the values of a loop  for ( i = start_index; i <= end_index; i++ )
OverRange(start_index, end_index) ==
    [k \in 1..(end_index - start_index + 1) |-> start_index + k - 1]

\* the bounding extremes of the range (is_ordered = false)
BoundingStart(p, start_index, end_index) ==
    Point2D(RMin({PointAt(p, i).x : i \in start_index..end_index}),
            RMin({PointAt(p, i).y : i \in start_index..end_index}))

BoundingEndMutLast(p, start_index, end_index) == PointAt(p, end_index)

BoundingEnd(p, start_index, end_index) ==
    Point2D(RMax({PointAt(p, i).x : i \in start_index..end_index}),
            RMax({PointAt(p, i).y : i \in start_index..end_index}))

\* if ( denominator < 1e-8f ) denominator = 1e-8f
ClampDenominator(denominator) ==
    IF BelowInverse(denominator, TenPow4, TenPow4)
    THEN Rat(1, TenPow4 * TenPow4)
    ELSE denominator

\* the guard of fitLineRegression: the range is not a range of the cloud
RegressionRangeBad(p, start_index, end_index) ==
    \/ Len(p) < 2
    \/ start_index >= Len(p)
    \/ end_index >= Len(p)
    \/ end_index <= start_index

\* the slope of the fit: the covariance over the variance along the major axis
RegressionSlope(p, start_index, end_index, mean_pt, swap_axis) ==
    LET Num(i) == RMul(RSub(PointAt(p, i).x, mean_pt.x),
                       RSub(PointAt(p, i).y, mean_pt.y))
        Den(i) == IF ~swap_axis THEN RSq(RSub(PointAt(p, i).x, mean_pt.x))
                  ELSE RSq(RSub(PointAt(p, i).y, mean_pt.y))
        range == OverRange(start_index, end_index)
        numerator == RSum([k \in DOMAIN range |-> Num(range[k])])
        denominator == ClampDenominator(RSum([k \in DOMAIN range |-> Den(range[k])]))
    IN  RDiv(numerator, denominator)

\* the line of that slope through the mean point, cut at start_pt and end_pt
SegmentOfSlope(mean_pt, start_pt, end_pt, swap_axis, slope) ==
    IF ~swap_axis
    THEN LET m == slope
             c == RSub(mean_pt.y, RMul(m, mean_pt.x))
         IN  LineSegment2D(Point2D(start_pt.x, RAdd(RMul(m, start_pt.x), c)),
                           Point2D(end_pt.x, RAdd(RMul(m, end_pt.x), c)))
    ELSE LET n == slope
             d == RSub(mean_pt.x, RMul(n, mean_pt.y))
         IN  LineSegment2D(Point2D(RAdd(RMul(n, start_pt.y), d), start_pt.y),
                           Point2D(RAdd(RMul(n, end_pt.y), d), end_pt.y))

\* the segment fitted to a good range.  (A value bound by  x \in {e}  is
\* computed once, where it is defined.)
RegressionSegment(p, start_index, end_index, is_ordered) ==
    LET start_pt == IF is_ordered THEN PointAt(p, start_index)
                    ELSE BoundingStart(p, start_index, end_index)
        end_pt == IF is_ordered THEN PointAt(p, end_index)
                  ELSE BoundingEnd(p, start_index, end_index)
        diff == PSub(end_pt, start_pt)
        swap_axis == RLt(RAbs(diff.x), RAbs(diff.y))
    IN  CHOOSE l \in
            {SegmentOfSlope(mean_pt, s_pt, e_pt, swap, slope) :
                mean_pt \in {calcMeanPoint(p, start_index, end_index)},
                s_pt \in {start_pt}, e_pt \in {end_pt}, swap \in {swap_axis},
                slope \in {RegressionSlope(p, start_index, end_index,
                                           calcMeanPoint(p, start_index, end_index),
                                           swap_axis)}} : TRUE

\* the error of a segment over a range: the sum of squaredMinDistTo
RegressionError(p, start_index, end_index, line_segment) ==
    LET Err(i) == squaredMinDistTo(line_segment, PointAt(p, i))
        range == OverRange(start_index, end_index)
    IN  RSum([k \in DOMAIN range |-> Err(range[k])])

\* Utils::fitLineRegression(pts, start_index, end_index, line_segment, is_ordered):
\* the segment written to line_segment and the error returned
fitLineRegression(p, start_index, end_index, is_ordered) ==
    IF RegressionRangeBad(p, start_index, end_index)
    THEN [line_segment |-> LineSegment2D(Origin, Origin), error |-> Zero]
    ELSE CHOOSE fit \in
             {[line_segment |-> l,
               error |-> RegressionError(p, start_index, end_index, l)] :
                 l \in {RegressionSegment(p, start_index, end_index, is_ordered)}} : TRUE

(***************************************************************************)
(* Random-sample-consensus fitters: Utils::fitLineRANSAC,                  *)
(* Utils::fitLineSegmentRANSAC, Utils::fitCircleRANSAC                     *)
(***************************************************************************)
TenPow8 == 100000000

Sentinel == 1000000

\* the indices start_index..end_index of a range (empty when inverted)
IndexRange(start_index, end_index) == start_index..end_index

MaxOf(S) == CHOOSE a \in S : \A b \in S : b <= a

\* the inner loop of fitLineRANSAC: the points of the range closer than delta
\* to the infinite line through pts[ind_1] and pts[ind_2]
LineInliersMutSegment(p, start_index, end_index, ind_1, ind_2, delta) ==
    {i \in IndexRange(start_index, end_index) :
        RLt(calcSquaredDistToLine(PointAt(p, ind_1), PointAt(p, ind_2),
                                  PointAt(p, i), TRUE),
            RSq(delta))}

LineInliers(p, start_index, end_index, ind_1, ind_2, delta) ==
    {i \in IndexRange(start_index, end_index) :
        RLt(calcSquaredDistToLine(PointAt(p, ind_1), PointAt(p, ind_2),
                                  PointAt(p, i), FALSE),
            RSq(delta))}

\* if ( score > max_score ): the candidate replaces the best one
ImprovesMutAlways(score, max_score) == score >= 0

Improves(score, max_score) == score > max_score

\* the tail of fitLineRANSAC: slope and intercept through the best pair, with
\* the clamp  if ( fabs(dx) < 1e-8 ) dx = 1e-8
LineThrough(p1, p2) ==
    LET raw_dx == RSub(p1.x, p2.x)
        dx == IF BelowInverse(RAbs(raw_dx), TenPow4, TenPow4)
              THEN Rat(1, TenPow8) ELSE raw_dx
        m == RDiv(RSub(p1.y, p2.y), dx)
    IN  [m |-> m, c |-> RSub(p1.y, RMul(m, p1.x))]

\* Utils::calcSquaredDistToLine(m, c, p): the squared distance of p to its
\* projection along the perpendicular of slope -1/m.  When |m| < 1e-8 the
\* code takes the perpendicular slope 1e8; the projection then differs from
\* the vertical one, (p.x, m*p.x + c), by a factor 1 + 1e-16 on the squared
\* distance, which cannot change a comparison between the rationals used
\* here, so the vertical projection is taken.
calcSquaredDistToLineMC(m, c, p) ==
    IF BelowInverse(RAbs(m), TenPow4, TenPow4)
    THEN RSq(RSub(p.y, RAdd(RMul(m, p.x), c)))
    ELSE LET perpendicular_m == RDiv(RNeg(One), m)
             perpendicular_c == RSub(p.y, RMul(perpendicular_m, p.x))
             proj_x == RDiv(RSub(perpendicular_c, c), RSub(m, perpendicular_m))
             proj_pt == Point2D(proj_x, RAdd(RMul(m, proj_x), c))
         IN  squaredDistTo(p, proj_pt)

\* Utils::calcProjectedPointOnMajorAxis(m, c, p)
calcProjectedPointOnMajorAxis(m, c, p) ==
    IF RLt(RAbs(m), One)
    THEN Point2D(p.x, RAdd(RMul(m, p.x), c))
    ELSE Point2D(RDiv(RSub(p.y, c), m), p.y)

\* one pass of the bounding loop of fitLineSegmentRANSAC for point p
BoundStep(l, m, c, p, delta) ==
    IF ~RLt(calcSquaredDistToLineMC(m, c, p), RSq(delta)) THEN l
    ELSE LET proj == calcProjectedPointOnMajorAxis(m, c, p)
             major_axis_x == RLt(RAbs(m), One)
             lo == IF major_axis_x THEN RLt(p.x, l.start.x)
                   ELSE RLt(p.y, l.start.y)
             l1 == IF lo THEN LineSegment2D(proj, l.end) ELSE l
             hi == IF major_axis_x THEN RLt(l1.end.x, p.x)
                   ELSE RLt(l1.end.y, p.y)
         IN  IF hi THEN LineSegment2D(l1.start, proj) ELSE l1

RECURSIVE BoundLoop(_, _, _, _, _, _, _)
BoundLoop(l, p, i, end_index, m, c, delta) ==
    IF i > end_index THEN l
    ELSE BoundLoop(BoundStep(l, m, c, PointAt(p, i), delta),
                   p, i + 1, end_index, m, c, delta)

\* the segment fitLineSegmentRANSAC writes once fitLineRANSAC has given m, c:
\* it starts from (1e6, 1e6)-(-1e6, -1e6) and is widened by the inliers
BoundSegment(p, start_index, end_index, m, c, delta) ==
    BoundLoop(LineSegment2D(Point2D(RI(Sentinel), RI(Sentinel)),
                            Point2D(RI(-Sentinel), RI(-Sentinel))),
              p, start_index, end_index, m, c, delta)

\* A circle is kept as its centre and the square of its radius r.
Circle(x, y, r_sq) == [x |-> x, y |-> y, r_sq |-> r_sq]

ZeroCircle == Circle(Zero, Zero, Zero)

\* Circle::fromPoints(p1, p2, p3, circle): the circle through three points;
\* fails when they are collinear
fromPoints(p1, p2, p3) ==
    LET Sq(q) == RAdd(RSq(q.x), RSq(q.y))
        Det(a, b, c) ==
            RMul(RI(2), RAdd(RMul(a.x, RSub(b.y, c.y)),
                        RAdd(RMul(b.x, RSub(c.y, a.y)),
                             RMul(c.x, RSub(a.y, b.y)))))
        Ux(a, b, c) ==
            RAdd(RMul(Sq(a), RSub(b.y, c.y)),
            RAdd(RMul(Sq(b), RSub(c.y, a.y)),
                 RMul(Sq(c), RSub(a.y, b.y))))
        Uy(a, b, c) ==
            RAdd(RMul(Sq(a), RSub(c.x, b.x)),
            RAdd(RMul(Sq(b), RSub(a.x, c.x)),
                 RMul(Sq(c), RSub(b.x, a.x))))
        Through(a, det, ux, uy) ==
            CHOOSE r \in {[ok |-> TRUE,
                           circle |-> Circle(cx, cy, squaredDistTo(a, Point2D(cx, cy)))] :
                          cx \in {RDiv(ux, det)}, cy \in {RDiv(uy, det)}} : TRUE
        Fitted(a, b, c) ==
            CHOOSE r \in {IF det = Zero THEN [ok |-> FALSE, circle |-> ZeroCircle]
                          ELSE Through(a, det, ux, uy) :
                          det \in {Det(a, b, c)}, ux \in {Ux(a, b, c)},
                          uy \in {Uy(a, b, c)}} : TRUE
    IN  CHOOSE r \in {Fitted(a, b, c) : a \in {p1}, b \in {p2}, c \in {p3}} : TRUE

\* fabs(p.distTo(circle) - circle.r) < delta, on squares: with a the squared
\* distance to the centre and b = r^2, |sqrt a - sqrt b| < delta iff
\* delta > 0 and a + b - delta^2 < 2 sqrt(a b)
NearCircle(p, circle, delta) ==
    LET a == squaredDistTo(p, Point2D(circle.x, circle.y))
        b == circle.r_sq
        lhs == RSub(RAdd(a, b), RSq(delta))
    IN  /\ RLt(Zero, delta)
        /\ \/ RLt(lhs, Zero)
           \/ RLt(RSq(lhs), RMul(RI(4), RMul(a, b)))

\* the index triples the two re-draw loops of fitCircleRANSAC can leave with:
\* while ( ind_2 == ind_1 ) and while ( ind_3 == ind_1 || ind_3 == ind_2 )
DrawnTriplesMutSecondOnly(start_index, end_index) ==
    {t \in IndexRange(start_index, end_index) \X IndexRange(start_index, end_index)
           \X IndexRange(start_index, end_index) :
        t[2] # t[1] /\ t[3] # t[1]}

DrawnTriples(start_index, end_index) ==
    {t \in IndexRange(start_index, end_index) \X IndexRange(start_index, end_index)
           \X IndexRange(start_index, end_index) :
        t[2] # t[1] /\ t[3] # t[1] /\ t[3] # t[2]}

CircleInliers(p, start_index, end_index, circle, delta) ==
    {i \in IndexRange(start_index, end_index) : NearCircle(PointAt(p, i), circle, delta)}

(***************************************************************************)
(* Calls of the fitters on an index range of a small cloud.  The random    *)
(* source is a free choice of indices in every iteration.                  *)
(***************************************************************************)
MaxRansacPts == 4

MaxItr == 2

RansacCloud == {Pt(0, 0), Pt(1, 0), Pt(0, 1), Pt(2, 0)}

Deltas == {Zero, Rat(3, 4)}

\* the values the caller's circle argument may hold before the call
CallerCircles == {ZeroCircle, Circle(RI(5), RI(5), RI(25))}

\* the clouds of the calls: the points of RansacCloud, each at most once,
\* in any order
RansacClouds ==
    {p \in SeqsUpTo(RansacCloud, MaxRansacPts) :
        /\ p # <<>>
        /\ \A i, j \in 1..Len(p) : p[i] = p[j] => i = j}

InitRansac ==
    /\ pts \in RansacClouds
    /\ lines = <<>>
    /\ par \in [start_index : 0..(MaxRansacPts - 1),
                end_index : 0..(MaxRansacPts - 1),
                delta : Deltas,
                itr_limit : {0, MaxItr}]
    /\ par.start_index < Len(pts)
    /\ par.end_index < Len(pts)
    /\ pc = "call"
    /\ loc = NoLocals
    /\ ret = NoReturn

num_of_points == par.end_index - par.start_index + 1

\* ++itr_num.  The count is followed up to IterCap; an itr_limit above
\* IterCap stands for a limit larger than any number of iterations followed.
IterCap == MaxItr

Unlimited == IterCap + 1

NextItr(itr_num) == IF itr_num < IterCap THEN itr_num + 1 ELSE itr_num

\* fitLineRANSAC up to the loop: the early return of a too-small range
CallFitLineRANSAC ==
    /\ pc = "call"
    /\ IF par.end_index <= par.start_index
       THEN /\ pc' = "done"
            /\ ret' = [fn |-> "fitLineRANSAC", m |-> Zero, c |-> Zero,
                       score |-> Zero, scores |-> {}]
            /\ loc' = loc
       ELSE /\ pc' = "fitLineRANSAC"
            /\ loc' = [fn |-> "fitLineRANSAC", itr_num |-> 0, max_score |-> 0,
                       index_1 |-> par.start_index, index_2 |-> par.end_index,
                       scores |-> {}, drawn |-> <<>>]
            /\ ret' = ret
    /\ UNCHANGED <<pts, lines, par>>

\* the head of the loop of fitLineRANSAC and its two draws of std::rand()
LineRansacDraw ==
    /\ pc = "fitLineRANSAC"
    /\ loc.itr_num < par.itr_limit
    /\ \E ind_1, ind_2 \in IndexRange(par.start_index, par.end_index) :
          loc' = [loc EXCEPT !.drawn = <<ind_1, ind_2>>]
    /\ pc' = "fitLineRANSAC.score"
    /\ UNCHANGED <<pts, lines, par, ret>>

\* the locals after the scoring loop and the update of the best pair
LineScoredLocals(l) ==
    LET score == CHOOSE n \in {Cardinality(LineInliers(pts, par.start_index,
                                                       par.end_index, l.drawn[1],
                                                       l.drawn[2], par.delta))} : TRUE
        better == Improves(score, l.max_score)
    IN  [l EXCEPT !.itr_num = NextItr(@),
                  !.max_score = IF better THEN score ELSE @,
                  !.index_1 = IF better THEN l.drawn[1] ELSE @,
                  !.index_2 = IF better THEN l.drawn[2] ELSE @,
                  !.scores = @ \cup {score}]

\* the rest of the iteration: the scoring loop and the update of the best pair
LineRansacScore ==
    /\ pc = "fitLineRANSAC.score"
    /\ loc' = LineScoredLocals(loc)
    /\ pc' = "fitLineRANSAC"
    /\ UNCHANGED <<pts, lines, par, ret>>

\* the end of fitLineRANSAC
LineRansacReturn ==
    /\ pc = "fitLineRANSAC"
    /\ loc.itr_num = par.itr_limit
    /\ LET through == LineThrough(PointAt(pts, loc.index_1), PointAt(pts, loc.index_2))
       IN  ret' = [fn |-> "fitLineRANSAC", m |-> through.m, c |-> through.c,
                   score |-> Rat(loc.max_score, num_of_points),
                   scores |-> loc.scores]
    /\ pc' = "done"
    /\ UNCHANGED <<pts, lines, par, loc>>

\* fitLineSegmentRANSAC on a range of at most one point, where fitLineRANSAC
\* returns m = c = 0 and score 0 at once
CallFitLineSegmentRANSAC ==
    /\ pc = "call"
    /\ par.end_index <= par.start_index
    /\ ret' = [fn |-> "fitLineSegmentRANSAC",
               line_segment |-> BoundSegment(pts, par.start_index, par.end_index,
                                             Zero, Zero, par.delta),
               score |-> Zero]
    /\ pc' = "done"
    /\ UNCHANGED <<pts, lines, par, loc>>

\* fitCircleRANSAC up to the loop: the early return of a too-small range
CallFitCircleRANSAC ==
    /\ pc = "call"
    /\ \E circle \in CallerCircles :
          IF par.end_index <= par.start_index + 1
          THEN /\ pc' = "done"
               /\ ret' = [fn |-> "fitCircleRANSAC", circle |-> ZeroCircle,
                          passed |-> circle, score |-> Zero, scores |-> {}]
               /\ loc' = loc
          ELSE /\ pc' = "fitCircleRANSAC"
               /\ loc' = [fn |-> "fitCircleRANSAC", itr_num |-> 0, max_score |-> 0,
                          circle |-> circle, passed |-> circle, scores |-> {},
                          drawn |-> <<>>]
               /\ ret' = ret
    /\ UNCHANGED <<pts, lines, par>>

\* one iteration of the loop of fitCircleRANSAC
CircleRansacIter ==
    /\ pc = "fitCircleRANSAC"
    /\ loc.itr_num < par.itr_limit
    /\ \E t \in DrawnTriples(par.start_index, par.end_index) :
          \E candidate \in {fromPoints(PointAt(pts, t[1]), PointAt(pts, t[2]),
                                       PointAt(pts, t[3]))} :
          \E score \in {IF candidate.ok
                        THEN Cardinality(CircleInliers(pts, par.start_index,
                                                       par.end_index,
                                                       candidate.circle, par.delta))
                        ELSE 0} :
          LET better == Improves(score, loc.max_score)
          IN  IF ~candidate.ok
              THEN loc' = [loc EXCEPT !.itr_num = @ + 1, !.drawn = t]
              ELSE loc' = [loc EXCEPT !.itr_num = @ + 1,
                                      !.max_score = IF better THEN score ELSE @,
                                      !.circle = IF better THEN candidate.circle ELSE @,
                                      !.scores = @ \cup {score},
                                      !.drawn = t]
    /\ UNCHANGED <<pts, lines, par, pc, ret>>

\* the end of fitCircleRANSAC, with the zero circle written when no candidate
\* scored
CircleRansacReturnMutZero ==
    /\ pc = "fitCircleRANSAC"
    /\ loc.itr_num = par.itr_limit
    /\ ret' = [fn |-> "fitCircleRANSAC",
               circle |-> IF loc.max_score = 0 THEN ZeroCircle ELSE loc.circle,
               passed |-> loc.passed,
               score |-> Rat(loc.max_score, num_of_points), scores |-> loc.scores]
    /\ pc' = "done"
    /\ UNCHANGED <<pts, lines, par, loc>>

\* the end of fitCircleRANSAC
CircleRansacReturn ==
    /\ pc = "fitCircleRANSAC"
    /\ loc.itr_num = par.itr_limit
    /\ ret' = [fn |-> "fitCircleRANSAC", circle |-> loc.circle, passed |-> loc.passed,
               score |-> Rat(loc.max_score, num_of_points), scores |-> loc.scores]
    /\ pc' = "done"
    /\ UNCHANGED <<pts, lines, par, loc>>

\* fitLineRegression on the range
CallFitLineRegression ==
    /\ pc = "call"
    /\ \E is_ordered \in BOOLEAN :
          LET fit == fitLineRegression(pts, par.start_index, par.end_index, is_ordered)
          IN  ret' = [fn |-> "fitLineRegression", is_ordered |-> is_ordered,
                      line_segment |-> fit.line_segment, error |-> fit.error]
    /\ pc' = "done"
    /\ UNCHANGED <<pts, lines, par, loc>>

NextRansac ==
    \/ CallFitLineRANSAC
    \/ LineRansacDraw
    \/ LineRansacScore
    \/ LineRansacReturn
    \/ CallFitLineSegmentRANSAC
    \/ CallFitCircleRANSAC
    \/ CircleRansacIter
    \/ CircleRansacReturn
    \/ CallFitLineRegression

SpecRansac == InitRansac /\ [][NextRansac]_vars

(***************************************************************************)
(* Claims on the fitters                                                   *)
(***************************************************************************)
Returned(fn) == pc = "done" /\ ret.fn = fn

ZeroSegment == LineSegment2D(Origin, Origin)

\* C8: every fitter called on a too-small index range returns a zero-valued
\* result and a score or error of 0: m = c = 0 from fitLineRANSAC and a
\* segment with both endpoints at the origin from fitLineSegmentRANSAC on a
\* range of at most one point, the circle (0, 0, 0) from fitCircleRANSAC on a
\* range of at most two points, the segment (0,0)-(0,0) from
\* fitLineRegression on a range of fewer than two points or an inverted one.
C8_TooSmallRangeGivesZero ==
    /\ Returned("fitLineRANSAC") /\ par.end_index <= par.start_index
          => ret.m = Zero /\ ret.c = Zero /\ ret.score = Zero
    /\ Returned("fitLineSegmentRANSAC") /\ par.end_index <= par.start_index
          => ret.line_segment = ZeroSegment /\ ret.score = Zero
    /\ Returned("fitCircleRANSAC") /\ par.end_index <= par.start_index + 1
          => ret.circle = ZeroCircle /\ ret.score = Zero
    /\ Returned("fitLineRegression") /\ par.end_index <= par.start_index
          => ret.line_segment = ZeroSegment /\ ret.error = Zero

\* the score the claim C9 describes: the highest inlier count of the
\* iterations that scored, over the size of the range
BestOverRange == Rat(MaxOf(ret.scores \cup {0}), num_of_points)

\* C9: on a range with start_index < end_index, whatever indices are drawn,
\* the score fitLineRANSAC returns is the highest inlier count over all
\* iterations divided by the range size, and lies in [0, 1]; the same holds
\* for fitCircleRANSAC on a range of at least three points.
C9_ScoreIsBestOverRange ==
    /\ Returned("fitLineRANSAC") /\ par.start_index < par.end_index
          => /\ ret.score = BestOverRange
             /\ RLe(Zero, ret.score)
             /\ RLe(ret.score, One)
    /\ Returned("fitCircleRANSAC") /\ par.start_index + 2 <= par.end_index
          => /\ ret.score = BestOverRange
             /\ RLe(Zero, ret.score)
             /\ RLe(ret.score, One)

\* a circle fit whose iterations scored differently
C9_Witness ==
    /\ Returned("fitCircleRANSAC")
    /\ par.start_index + 2 <= par.end_index
    /\ Cardinality(ret.scores) >= 2
    /\ ret.score = BestOverRange

(***************************************************************************)
(* Calls of fitLineRegression on a range of a small cloud                  *)
(***************************************************************************)
MaxRegressPts == 3

RegressCloud ==
    {Pt(0, 0), Pt(1, 0), Pt(2, 0), Pt(1, 1), Pt(2, 2), Pt(0, 1), Pt(0, 2)}

InitRegress ==
    /\ pts \in SeqsUpTo(RegressCloud, MaxRegressPts) \ {<<>>}
    /\ lines = <<>>
    /\ par \in [start_index : 0..(MaxRegressPts - 1),
                end_index : 0..(MaxRegressPts - 1)]
    /\ par.start_index < Len(pts)
    /\ par.end_index < Len(pts)
    /\ pc = "call"
    /\ loc = NoLocals
    /\ ret = NoReturn

NextRegress == CallFitLineRegression

SpecRegress == InitRegress /\ [][NextRegress]_vars

\* all points of the range lie on one straight line
RangeCollinear ==
    \A i, j, k \in IndexRange(par.start_index, par.end_index) :
        scalarCrossProduct(PSub(PointAt(pts, j), PointAt(pts, i)),
                           PSub(PointAt(pts, k), PointAt(pts, i))) = Zero

\* every point of the range lies between its first and its last point
RangeWithinEnds ==
    \A i \in IndexRange(par.start_index, par.end_index) :
        RLe(dotProduct(PSub(PointAt(pts, i), PointAt(pts, par.start_index)),
                       PSub(PointAt(pts, i), PointAt(pts, par.end_index))),
            Zero)

\* C10 as stated: on a range of at least two points that all lie on one
\* straight line fitLineRegression returns error 0, with is_ordered true
\* and false, whatever the order of the points in the range.
C10_CollinearErrorZeroAnyOrder ==
    Returned("fitLineRegression") /\ par.start_index < par.end_index /\ RangeCollinear
        => ret.error = Zero

\* C10, amended: on a range of at least two points that all lie on one
\* straight line fitLineRegression returns error 0 with is_ordered = false
\* whatever the order of the points, and with is_ordered = true exactly when
\* every point of the range lies between the first and the last one.
C10_CollinearErrorZero ==
    (Returned("fitLineRegression") /\ par.start_index < par.end_index /\ RangeCollinear)
        => IF ret.is_ordered
           THEN (ret.error = Zero) <=> RangeWithinEnds
           ELSE ret.error = Zero

\* three collinear points at different places, the middle one not in the
\* middle of the range, fitted without the order assumption
C10_Witness ==
    /\ Returned("fitLineRegression")
    /\ par.start_index = 0
    /\ par.end_index = 2
    /\ RangeCollinear
    /\ ~RangeWithinEnds
    /\ PointAt(pts, 0) # PointAt(pts, 1)
    /\ ~ret.is_ordered
    /\ ret.error = Zero

(***************************************************************************)
(* Piecewise segmentation: Utils::applyPiecewiseRegression (merge          *)
(* strategy), Utils::applyPiecewiseRegressionSplit (split strategy) and    *)
(* the entry point Utils::fitLineSegments                                  *)
(***************************************************************************)
LargeError == 1000000

RegressionLineSegment(start_index, end_index) ==
    [start_index |-> start_index, end_index |-> end_index]

\* the error fitLineRegression returns on the ordered range start..end
RangeError(p, start_index, end_index) ==
    fitLineRegression(p, start_index, end_index, TRUE).error

\* the segment fitLineRegression writes on the ordered range start..end
RangeSegment(p, start_index, end_index) ==
    fitLineRegression(p, start_index, end_index, TRUE).line_segment

RemoveAt(s, i) == SubSeq(s, 1, i - 1) \o SubSeq(s, i + 1, Len(s))

InsertAt(s, i, e) == SubSeq(s, 1, i - 1) \o <<e>> \o SubSeq(s, i, Len(s))

\* applyPiecewiseRegression, the initial segments: pairs of points, the last
\* segment running to the last point
InitialSegmentsMutNoOdd(n) ==
    [k \in 1..(n \div 2) |-> RegressionLineSegment(2 * (k - 1), 2 * (k - 1) + 1)]

InitialSegments(n) ==
    [k \in 1..(n \div 2) |->
        RegressionLineSegment(2 * (k - 1),
                              IF 2 * (k - 1) + 3 >= n THEN n - 1 ELSE 2 * (k - 1) + 1)]

\* errors[i]: the error of segments i and i+1 merged
InitialErrors(p, segments) ==
    [k \in 1..(Len(segments) - 1) |->
        RangeError(p, segments[k].start_index, segments[k + 1].end_index)]

\* the scan for the lowest error: i = 0, lowest_error = 1e6, and
\* if ( error < lowest_error ) for every j in turn; the position found is
\* returned as a position of the sequence (i + 1)
RECURSIVE ScanLowest(_, _, _, _)
ScanLowest(errors, j, i, lowest_error) ==
    IF j > Len(errors) THEN [i |-> i, lowest_error |-> lowest_error]
    ELSE IF RLt(errors[j], lowest_error)
         THEN ScanLowest(errors, j + 1, j, errors[j])
         ELSE ScanLowest(errors, j + 1, i, lowest_error)

Lowest(errors) == ScanLowest(errors, 1, 1, RI(LargeError))

\* the merge loop ends: one segment left, or the lowest error is above the
\* threshold
MergeStop(st, error_threshold) ==
    \/ ~(Len(st.segments) > 1)
    \/ RLt(error_threshold, Lowest(st.errors).lowest_error)

MergeStepMutStale(p, st) ==
    LET i == Lowest(st.errors).i
        joined == [st.segments EXCEPT ![i].end_index = st.segments[i + 1].end_index]
    IN  [segments |-> RemoveAt(joined, i + 1), errors |-> RemoveAt(st.errors, i)]

\* the body of the merge loop past the break: segments i and i+1 become one
\* and the errors with its neighbours are fitted again
MergeStep(p, st) ==
    LET i == Lowest(st.errors).i
        joined == [st.segments EXCEPT ![i].end_index = st.segments[i + 1].end_index]
        segments == RemoveAt(joined, i + 1)
        left == IF i > 1
                THEN [st.errors EXCEPT ![i - 1] =
                         RangeError(p, segments[i - 1].start_index, segments[i].end_index)]
                ELSE st.errors
        right == IF i < Len(segments)
                 THEN [left EXCEPT ![i + 1] =
                          RangeError(p, segments[i].start_index, segments[i + 1].end_index)]
                 ELSE left
    IN  [segments |-> segments, errors |-> RemoveAt(right, i)]

\* the segments of applyPiecewiseRegression before its loop
MergeStart(p) ==
    LET segments == InitialSegments(Len(p))
    IN  [segments |-> segments, errors |-> InitialErrors(p, segments)]

\* the line segments returned for the final index ranges
MergeFinal(p, st) ==
    [k \in 1..Len(st.segments) |->
        RangeSegment(p, st.segments[k].start_index, st.segments[k].end_index)]

RECURSIVE MergeRun(_, _, _)
MergeRun(p, st, error_threshold) ==
    IF MergeStop(st, error_threshold) THEN st
    ELSE CHOOSE final \in {MergeRun(p, next, error_threshold) :
                              next \in {MergeStep(p, st)}} : TRUE

\* Utils::applyPiecewiseRegression(pts, error_threshold)
applyPiecewiseRegression(p, error_threshold) ==
    IF Len(p) < 2 THEN <<>>
    ELSE CHOOSE line_segments \in
             {MergeFinal(p, final) :
                 final \in {MergeRun(p, st, error_threshold) : st \in {MergeStart(p)}}} : TRUE

\* a segment of the split strategy: its index range and its fitted segment
SplitSegment(p, start_index, end_index) ==
    [start_index |-> start_index, end_index |-> end_index,
     line_segment |-> RangeSegment(p, start_index, end_index)]

\* the scan for the highest error: i = 0, highest_error = 0, and
\* if ( error > highest_error ) for every j in turn
RECURSIVE ScanHighest(_, _, _, _)
ScanHighest(errors, j, i, highest_error) ==
    IF j > Len(errors) THEN [i |-> i, highest_error |-> highest_error]
    ELSE IF RLt(highest_error, errors[j])
         THEN ScanHighest(errors, j + 1, j, errors[j])
         ELSE ScanHighest(errors, j + 1, i, highest_error)

Highest(errors) == ScanHighest(errors, 1, 1, Zero)

\* the scan for the split point of the range start..end: the interior point
\* farthest from the chord pts[start]-pts[end], start_index when none is off it
RECURSIVE ScanSplit(_, _, _, _, _, _)
ScanSplit(p, start_index, end_index, j, split_pt_index, max_dist) ==
    IF ~(j + 1 <= end_index) THEN split_pt_index
    ELSE LET dist == calcSquaredDistToLine(PointAt(p, start_index), PointAt(p, end_index),
                                           PointAt(p, j), TRUE)
         IN  IF RLt(max_dist, dist)
             THEN ScanSplit(p, start_index, end_index, j + 1, j, dist)
             ELSE ScanSplit(p, start_index, end_index, j + 1, split_pt_index, max_dist)

SplitPointMutMiddle(p, start_index, end_index) == (start_index + end_index) \div 2

SplitPoint(p, start_index, end_index) ==
    ScanSplit(p, start_index, end_index, start_index + 1, start_index, Zero)

SplitStopMutFive(st, error_threshold) ==
    LET worst == Highest(st.errors)
    IN  \/ RLt(worst.highest_error, error_threshold)
        \/ st.segments[worst.i].end_index - st.segments[worst.i].start_index < 4

\* the split loop ends: the highest error is below the threshold, or the
\* segment that has it holds fewer than four points
SplitStop(st, error_threshold) ==
    LET worst == Highest(st.errors)
    IN  \/ RLt(worst.highest_error, error_threshold)
        \/ st.segments[worst.i].end_index - st.segments[worst.i].start_index < 3

\* the body of the split loop past the breaks
SplitStep(p, st) ==
    LET i == Highest(st.errors).i
        old == st.segments[i]
        split_pt_index == SplitPoint(p, old.start_index, old.end_index)
        first == SplitSegment(p, old.start_index, split_pt_index)
        second == SplitSegment(p, split_pt_index + 1, old.end_index)
        segments == InsertAt([st.segments EXCEPT ![i] = second], i, first)
        errors == InsertAt([st.errors EXCEPT ![i] =
                               RangeError(p, second.start_index, second.end_index)],
                           i, RangeError(p, first.start_index, first.end_index))
    IN  [segments |-> segments, errors |-> errors]

\* the whole range as one segment, with its error
SplitStart(p) ==
    [segments |-> <<SplitSegment(p, 0, Len(p) - 1)>>,
     errors |-> <<RangeError(p, 0, Len(p) - 1)>>]

SplitFinalMutAll(st) == [k \in 1..Len(st.segments) |-> st.segments[k].line_segment]

\* the line segments returned: those of the ranges of more than one point
SplitFinal(st) ==
    LET kept == SelectSeq(st.segments, LAMBDA g : g.start_index # g.end_index)
    IN  [k \in 1..Len(kept) |-> kept[k].line_segment]

RECURSIVE SplitRun(_, _, _)
SplitRun(p, st, error_threshold) ==
    IF SplitStop(st, error_threshold) THEN st
    ELSE CHOOSE final \in {SplitRun(p, next, error_threshold) :
                              next \in {SplitStep(p, st)}} : TRUE

\* Utils::applyPiecewiseRegressionSplit(pts, error_threshold)
applyPiecewiseRegressionSplit(p, error_threshold) ==
    IF Len(p) < 2 THEN <<>>
    ELSE CHOOSE line_segments \in
             {IF RLt(st.errors[1], error_threshold)
              THEN <<st.segments[1].line_segment>>
              ELSE SplitFinal(SplitRun(p, st, error_threshold)) :
                 st \in {SplitStart(p)}} : TRUE

fitLineSegmentsMutSplit(p, regression_error_threshold, distance_threshold, angle_threshold) ==
    CHOOSE merged \in
        {mergeCloseLines(ls, distance_threshold, angle_threshold) :
            ls \in {applyPiecewiseRegressionSplit(p, regression_error_threshold)}} : TRUE

\* Utils::fitLineSegments(pts, regression_error_threshold, distance_threshold,
\* angle_threshold)
fitLineSegments(p, regression_error_threshold, distance_threshold, angle_threshold) ==
    CHOOSE merged \in
        {mergeCloseLines(ls, distance_threshold, angle_threshold) :
            ls \in {applyPiecewiseRegression(p, regression_error_threshold)}} : TRUE

(***************************************************************************)
(* Calls of the piecewise engines, of mergeCloseLines on their result, and *)
(* of fitLineSegments                                                      *)
(***************************************************************************)
MaxPiecePts == 4

PieceCloud == {Pt(0, 0), Pt(1, 0), Pt(2, 0), Pt(2, 1)}

ErrorThresholds == {Rat(1, 10), RI(1)}

InitPiecewise ==
    /\ pts \in SeqsUpTo(PieceCloud, MaxPiecePts)
    /\ lines = <<>>
    /\ par \in [error_threshold : ErrorThresholds,
                distance_threshold : DistanceThresholds,
                angle_threshold : AngleThresholds]
    /\ pc = "call"
    /\ loc = NoLocals
    /\ ret = NoReturn

\* applyPiecewiseRegression up to its merge loop
CallApplyPiecewiseRegression ==
    /\ pc = "call"
    /\ IF Len(pts) < 2
       THEN /\ pc' = "done"
            /\ lines' = <<>>
            /\ ret' = [fn |-> "applyPiecewiseRegression"]
            /\ loc' = loc
       ELSE /\ pc' = "applyPiecewiseRegression"
            /\ loc' = [fn |-> "applyPiecewiseRegression"] @@ MergeStart(pts)
            /\ UNCHANGED <<lines, ret>>
    /\ UNCHANGED <<pts, par>>

\* one round of the merge loop
MergeIter ==
    /\ pc = "applyPiecewiseRegression"
    /\ ~MergeStop(loc, par.error_threshold)
    /\ loc' = [fn |-> loc.fn] @@ MergeStep(pts, loc)
    /\ UNCHANGED <<pts, lines, par, pc, ret>>

\* the merge loop ends and the segments are fitted
MergeReturn ==
    /\ pc = "applyPiecewiseRegression"
    /\ MergeStop(loc, par.error_threshold)
    /\ lines' = MergeFinal(pts, loc)
    /\ ret' = [fn |-> "applyPiecewiseRegression"]
    /\ pc' = "done"
    /\ UNCHANGED <<pts, par, loc>>

\* applyPiecewiseRegressionSplit up to its split loop
CallApplyPiecewiseRegressionSplit ==
    /\ pc = "call"
    /\ IF Len(pts) < 2
       THEN /\ pc' = "done"
            /\ lines' = <<>>
            /\ ret' = [fn |-> "applyPiecewiseRegressionSplit"]
            /\ loc' = loc
       ELSE \E st \in {SplitStart(pts)} :
               IF RLt(st.errors[1], par.error_threshold)
               THEN /\ pc' = "done"
                    /\ lines' = <<st.segments[1].line_segment>>
                    /\ ret' = [fn |-> "applyPiecewiseRegressionSplit"]
                    /\ loc' = loc
               ELSE /\ pc' = "applyPiecewiseRegressionSplit"
                    /\ loc' = [fn |-> "applyPiecewiseRegressionSplit"] @@ st
                    /\ UNCHANGED <<lines, ret>>
    /\ UNCHANGED <<pts, par>>

\* one round of the split loop
SplitIter ==
    /\ pc = "applyPiecewiseRegressionSplit"
    /\ ~SplitStop(loc, par.error_threshold)
    /\ loc' = [fn |-> loc.fn] @@ SplitStep(pts, loc)
    /\ UNCHANGED <<pts, lines, par, pc, ret>>

\* the split loop ends
SplitReturn ==
    /\ pc = "applyPiecewiseRegressionSplit"
    /\ SplitStop(loc, par.error_threshold)
    /\ lines' = SplitFinal(loc)
    /\ ret' = [fn |-> "applyPiecewiseRegressionSplit"]
    /\ pc' = "done"
    /\ UNCHANGED <<pts, par, loc>>

\* mergeCloseLines on the segments an engine returned
MergeEngineLines ==
    /\ pc = "done"
    /\ ret.fn \in {"applyPiecewiseRegression", "applyPiecewiseRegressionSplit"}
    /\ lines' = mergeCloseLines(lines, par.distance_threshold, par.angle_threshold)
    /\ pc' = "merged"
    /\ UNCHANGED <<pts, par, loc, ret>>

\* fitLineSegments
CallFitLineSegments ==
    /\ pc = "call"
    /\ lines' = fitLineSegments(pts, par.error_threshold, par.distance_threshold,
                                par.angle_threshold)
    /\ ret' = [fn |-> "fitLineSegments"]
    /\ pc' = "done"
    /\ UNCHANGED <<pts, par, loc>>

NextPiecewise ==
    \/ CallApplyPiecewiseRegression
    \/ MergeIter
    \/ MergeReturn
    \/ CallApplyPiecewiseRegressionSplit
    \/ SplitIter
    \/ SplitReturn
    \/ MergeEngineLines
    \/ CallFitLineSegments

SpecPiecewise == InitPiecewise /\ [][NextPiecewise]_vars

\* what fitLineSegments returns on the arguments of the call
EntryPointLines ==
    fitLineSegments(pts, par.error_threshold, par.distance_threshold, par.angle_threshold)

MergedAfter(fn) == pc = "merged" /\ ret.fn = fn

IndicesCollinear(t) ==
    scalarCrossProduct(PSub(PointAt(pts, t[2]), PointAt(pts, t[1])),
                       PSub(PointAt(pts, t[3]), PointAt(pts, t[1]))) = Zero

\* a step that is one iteration of the loop of fitCircleRANSAC
CircleIterationStep ==
    /\ pc = "fitCircleRANSAC"
    /\ pc' = "fitCircleRANSAC"
    /\ loc'.itr_num = loc.itr_num + 1

\* C11: in every iteration of fitCircleRANSAC on a range of at least three
\* points the three sampled indices are pairwise distinct and inside
\* [start_index, end_index], and an iteration whose three points are
\* collinear changes neither the best score nor the output circle.
C11_CircleDrawsDistinctCollinearSkipped ==
    [][CircleIterationStep =>
          /\ \A k \in 1..3 : loc'.drawn[k] \in par.start_index..par.end_index
          /\ loc'.drawn[1] # loc'.drawn[2]
          /\ loc'.drawn[1] # loc'.drawn[3]
          /\ loc'.drawn[2] # loc'.drawn[3]
          /\ IndicesCollinear(loc'.drawn)
                => /\ loc'.max_score = loc.max_score
                   /\ loc'.circle = loc.circle
                   /\ loc'.scores = loc.scores]_vars

\* an iteration on three collinear points that followed one that scored
C11_Witness ==
    /\ pc = "fitCircleRANSAC"
    /\ loc.itr_num = 2
    /\ IndicesCollinear(loc.drawn)
    /\ loc.max_score > 0
    /\ loc.circle # loc.passed

(***************************************************************************)
(* fitCircleRANSAC statement by statement: the draws of std::rand() and    *)
(* the two re-draw loops are steps of their own.  The generator's hidden   *)
(* state advances with every call of std::rand(); it is kept as a phase    *)
(* modulo RandPeriod, and the value returned is any index of the range.    *)
(***************************************************************************)
RandPeriod == 2

MaxDrawItr == 2

DrawClouds ==
    {<<Pt(0, 0), Pt(1, 0), Pt(0, 1)>>,
     <<Pt(0, 0), Pt(1, 0), Pt(2, 0), Pt(0, 1)>>}

InitDraws ==
    /\ pts \in DrawClouds
    /\ lines = <<>>
    /\ par \in [start_index : 0..1,
                end_index : 2..3,
                delta : {Rat(3, 4)},
                itr_limit : 1..MaxDrawItr]
    /\ par.end_index < Len(pts)
    /\ pc = "call"
    /\ loc = NoLocals
    /\ ret = NoReturn

\* (std::rand() % num_of_points) + start_index
RandIndices == IndexRange(par.start_index, par.end_index)

NextRand(phase) == (phase + 1) % RandPeriod

\* entry of fitCircleRANSAC up to the loop head
DrawsCall ==
    /\ pc = "call"
    /\ \E circle \in CallerCircles :
          IF par.end_index <= par.start_index + 1
          THEN /\ pc' = "done"
               /\ ret' = [fn |-> "fitCircleRANSAC", circle |-> ZeroCircle,
                          passed |-> circle, score |-> Zero, scores |-> {}]
               /\ loc' = loc
          ELSE /\ pc' = "for"
               /\ loc' = [fn |-> "fitCircleRANSAC", itr_num |-> 0, max_score |-> 0,
                          circle |-> circle, passed |-> circle, scores |-> {},
                          ind_1 |-> 0, ind_2 |-> 0, ind_3 |-> 0, phase |-> 0]
               /\ ret' = ret
    /\ UNCHANGED <<pts, lines, par>>

\* for ( itr_num < itr_limit ): ind_1 is drawn and ind_2 = ind_1
DrawsFirst ==
    /\ pc = "for"
    /\ loc.itr_num < par.itr_limit
    /\ \E r \in RandIndices :
          loc' = [loc EXCEPT !.ind_1 = r, !.ind_2 = r, !.phase = NextRand(@)]
    /\ pc' = "while_2"
    /\ UNCHANGED <<pts, lines, par, ret>>

\* while ( ind_2 == ind_1 ): one more draw of ind_2
DrawsSecondAgain ==
    /\ pc = "while_2"
    /\ loc.ind_2 = loc.ind_1
    /\ \E r \in RandIndices :
          loc' = [loc EXCEPT !.ind_2 = r, !.phase = NextRand(@)]
    /\ UNCHANGED <<pts, lines, par, pc, ret>>

\* the first loop is left; ind_3 = ind_1
DrawsSecondDone ==
    /\ pc = "while_2"
    /\ loc.ind_2 # loc.ind_1
    /\ loc' = [loc EXCEPT !.ind_3 = loc.ind_1]
    /\ pc' = "while_3"
    /\ UNCHANGED <<pts, lines, par, ret>>

\* while ( ind_3 == ind_1 || ind_3 == ind_2 ): one more draw of ind_3
DrawsThirdAgain ==
    /\ pc = "while_3"
    /\ loc.ind_3 = loc.ind_1 \/ loc.ind_3 = loc.ind_2
    /\ \E r \in RandIndices :
          loc' = [loc EXCEPT !.ind_3 = r, !.phase = NextRand(@)]
    /\ UNCHANGED <<pts, lines, par, pc, ret>>

\* the rest of the loop body once the three indices are drawn: the locals
\* after Circle::fromPoints and, when it succeeds, the scoring loop
ScoredLocals(l) ==
    LET candidate == CHOOSE c \in {fromPoints(PointAt(pts, l.ind_1),
                                              PointAt(pts, l.ind_2),
                                              PointAt(pts, l.ind_3))} : TRUE
        score == CHOOSE n \in {IF candidate.ok
                               THEN Cardinality(CircleInliers(pts, par.start_index,
                                                              par.end_index,
                                                              candidate.circle,
                                                              par.delta))
                               ELSE 0} : TRUE
        better == Improves(score, l.max_score)
    IN  IF ~candidate.ok
        THEN [l EXCEPT !.itr_num = @ + 1]
        ELSE [l EXCEPT !.itr_num = @ + 1,
                       !.max_score = IF better THEN score ELSE @,
                       !.circle = IF better THEN candidate.circle ELSE @,
                       !.scores = @ \cup {score}]

\* the second loop is left: the circle is fitted and scored, and the
\* iteration ends
DrawsScore ==
    /\ pc = "while_3"
    /\ loc.ind_3 # loc.ind_1
    /\ loc.ind_3 # loc.ind_2
    /\ loc' = ScoredLocals(loc)
    /\ pc' = "for"
    /\ UNCHANGED <<pts, lines, par, ret>>

\* the loop is over: return (float)max_score/num_of_points
DrawsReturn ==
    /\ pc = "for"
    /\ loc.itr_num = par.itr_limit
    /\ ret' = [fn |-> "fitCircleRANSAC", circle |-> loc.circle, passed |-> loc.passed,
               score |-> Rat(loc.max_score, num_of_points), scores |-> loc.scores]
    /\ pc' = "done"
    /\ UNCHANGED <<pts, lines, par, loc>>

NextDraws ==
    \/ DrawsCall
    \/ DrawsFirst
    \/ DrawsSecondAgain
    \/ DrawsSecondDone
    \/ DrawsThirdAgain
    \/ DrawsScore
    \/ DrawsReturn

SpecDraws == InitDraws /\ [][NextDraws]_vars

\* the program is never suspended: a statement that can run does run.
\* Nothing is assumed of the values std::rand() returns.
FairSpecDraws == SpecDraws /\ WF_vars(NextDraws)

\* C12: every core operation terminates, with a number of loop iterations
\* bounded by the input size and itr_limit alone, whatever the random
\* values are; for fitCircleRANSAC and its index re-draw loops: every call
\* returns.
C12_CircleRansacTerminates == <>(pc = "done")

(***************************************************************************)
(* fitLineSegments on points of one line, met in the order of the line     *)
(***************************************************************************)
MaxLinePts == 4

MaxLinePos == 3

\* directions of the line through the origin the points lie on
LineDirections ==
    {<<1, 0>>, <<0, 1>>, <<1, 1>>, <<1, -1>>, <<-1, 0>>, <<0, -1>>,
     <<2, 1>>, <<1, 2>>, <<-1, 2>>}

\* positions along the line that never go back
MonotonePositions(n) ==
    {s \in [1..n -> 0..MaxLinePos] : \A i \in 1..(n - 1) : s[i] <= s[i + 1]}

LineCloud(d, s) == [i \in 1..Len(s) |-> Pt(s[i] * d[1], s[i] * d[2])]

\* the default thresholds of fitLineSegments: 0.1, 0.2 and 0.2 rad, the angle
\* by its tangent (tan 0.2 = 0.2027)
DefaultErrorThreshold == Rat(1, 10)
DefaultDistanceThreshold == Rat(1, 5)
DefaultAngleThreshold == Rat(2027, 10000)

InitLineFit ==
    /\ \E d \in LineDirections :
       \E s \in UNION {MonotonePositions(n) : n \in 2..MaxLinePts} :
          pts = LineCloud(d, s)
    /\ lines = <<>>
    /\ par \in [error_threshold : {Zero, DefaultErrorThreshold},
                distance_threshold : {DefaultDistanceThreshold},
                angle_threshold : {DefaultAngleThreshold}]
    /\ pc = "call"
    /\ loc = NoLocals
    /\ ret = NoReturn

NextLineFit == CallFitLineSegments

SpecLineFit == InitLineFit /\ [][NextLineFit]_vars

\* the points of p lie on one line and never step back along it
CollinearMonotone(p) ==
    LET along == PSub(Last(p), p[1])
    IN  /\ \A i \in 1..Len(p) : scalarCrossProduct(PSub(p[i], p[1]), along) = Zero
        /\ \A i \in 1..(Len(p) - 1) :
              RLe(Zero, dotProduct(PSub(p[i + 1], p[i]), along))
        /\ along = Origin => \A i \in 1..Len(p) : p[i] = p[1]

\* C13: on at least two collinear points met in monotone order and with the
\* default thresholds, fitLineSegments returns exactly one segment, from the
\* first point to the last; on (0,0),(1,0),(2,0),(3,0) it is (0,0)-(3,0).
C13_CollinearCloudGivesOneSegment ==
    (/\ Returned("fitLineSegments")
     /\ Len(pts) >= 2
     /\ CollinearMonotone(pts)
     /\ par.error_threshold = DefaultErrorThreshold
     /\ par.distance_threshold = DefaultDistanceThreshold
     /\ par.angle_threshold = DefaultAngleThreshold)
        => lines = <<LineSegment2D(pts[1], Last(pts))>>

\* the call of the claim's example has returned its one segment
C13_Witness ==
    /\ Returned("fitLineSegments")
    /\ pts = <<Pt(0, 0), Pt(1, 0), Pt(2, 0), Pt(3, 0)>>
    /\ par.error_threshold = DefaultErrorThreshold
    /\ lines = <<LineSegment2D(Pt(0, 0), Pt(3, 0))>>

(***************************************************************************)
(* clusterPoints on the points (0,0), (1,0), (2,0), (10,0)                 *)
(***************************************************************************)
MaxExamplePts == 4

ExampleCloud == {Pt(0, 0), Pt(1, 0), Pt(2, 0), Pt(10, 0)}

ExampleThresholds == {Rat(1, 2), Rat(3, 2)}

InitClusterExample ==
    /\ pts \in SeqsUpTo(ExampleCloud, MaxExamplePts)
    /\ lines = <<>>
    /\ par \in [cluster_distance_threshold : ExampleThresholds,
                min_cluster_size : 0..1]
    /\ pc = "call"
    /\ loc = NoLocals
    /\ ret = NoReturn

NextClusterExample ==
    \/ CallClusterPoints
    \/ ClusterPointsIter
    \/ ClusterPointsReturn

SpecClusterExample == InitClusterExample /\ [][NextClusterExample]_vars

\* the points of the returned clusters, in the order returned
ReturnedPointClusters ==
    [k \in 1..Len(ret.clusters) |->
        [n \in 1..Len(ret.clusters[k]) |-> pts[ret.clusters[k][n]]]]

\* clusterPoints has returned from the call on (0,0),(1,0),(2,0),(10,0) with
\* min_cluster_size = 0 and the threshold t
ExampleCallDone(t) ==
    /\ Returned("clusterPoints")
    /\ pts = <<Pt(0, 0), Pt(1, 0), Pt(2, 0), Pt(10, 0)>>
    /\ par.cluster_distance_threshold = t
    /\ par.min_cluster_size = 0

\* C14 as stated: on (0,0),(1,0),(2,0),(10,0) with
\* cluster_distance_threshold = 0.5 and min_cluster_size = 0 clusterPoints
\* returns exactly the two clusters {(0,0),(1,0),(2,0)} and {(10,0)}, on
\* every call.
C14_ExampleGivesTwoClusters ==
    ExampleCallDone(Rat(1, 2)) =>
        /\ Len(ReturnedPointClusters) = 2
        /\ {Range(c) : c \in Range(ReturnedPointClusters)}
              = {{Pt(0, 0), Pt(1, 0), Pt(2, 0)}, {Pt(10, 0)}}

\* C14, amended: with cluster_distance_threshold = 0.5 every call returns the
\* four one-point clusters (0,0), (1,0), (2,0), (10,0) in that order, no two
\* of the points being closer than 0.5; the two clusters of the claim are
\* what every call returns with cluster_distance_threshold = 1.5.
C14_ExampleGivesFourSingletons ==
    /\ ExampleCallDone(Rat(1, 2)) =>
          ReturnedPointClusters
              = <<<<Pt(0, 0)>>, <<Pt(1, 0)>>, <<Pt(2, 0)>>, <<Pt(10, 0)>>>>
    /\ ExampleCallDone(Rat(3, 2)) =>
          ReturnedPointClusters = <<<<Pt(0, 0), Pt(1, 0), Pt(2, 0)>>, <<Pt(10, 0)>>>>

\* the call of the claim's example, threshold 0.5, has returned
C14_Witness ==
    /\ ExampleCallDone(Rat(1, 2))
    /\ Len(ret.clusters) = 4

(***************************************************************************)
(* fitLineRANSAC as itr_limit grows.  The random source is fair: a pair of *)
(* different indices, possible again and again, is drawn at some time.     *)
(***************************************************************************)
MaxConvergePts == 3

ConvergeDirections == {<<1, 0>>, <<-1, 2>>}

\* positions along the line, each taken once, met in increasing order or
\* with the last one moved to the front
DistinctPositions(n) ==
    {s \in [1..n -> 0..(MaxConvergePts - 1)] :
        \/ \A i \in 1..(n - 1) : s[i] < s[i + 1]
        \/ /\ \A i \in 2..(n - 1) : s[i] < s[i + 1]
           /\ s[n] < s[1]}

\* clouds of points of one line, and one cloud that is not on a line
ConvergeClouds ==
    {LineCloud(d, s) : d \in ConvergeDirections,
                       s \in UNION {DistinctPositions(n) : n \in 2..MaxConvergePts}}
        \cup {<<Pt(0, 0), Pt(1, 0), Pt(0, 1)>>}

ConvergeDeltas == {Rat(3, 4)}

InitConverge ==
    /\ pts \in ConvergeClouds
    /\ lines = <<>>
    /\ par \in [start_index : 0..1,
                end_index : 1..(MaxConvergePts - 1),
                delta : ConvergeDeltas,
                itr_limit : {MaxItr, Unlimited}]
    /\ par.start_index < par.end_index
    /\ par.end_index < Len(pts)
    /\ pc = "call"
    /\ loc = NoLocals
    /\ ret = NoReturn

\* the draws of an iteration of fitLineRANSAC give two different indices
LineRansacDrawDistinct ==
    /\ LineRansacDraw
    /\ loc'.drawn[1] # loc'.drawn[2]

NextConverge ==
    \/ CallFitLineRANSAC
    \/ LineRansacDraw
    \/ LineRansacScore
    \/ LineRansacReturn

SpecConverge == InitConverge /\ [][NextConverge]_vars

FairSpecConverge ==
    /\ SpecConverge
    /\ WF_vars(NextConverge)
    /\ SF_vars(LineRansacDrawDistinct)

\* the points of the range are on one line, at pairwise distinct positions,
\* and delta > 0
CollinearRange ==
    /\ par.start_index < par.end_index
    /\ RLt(Zero, par.delta)
    /\ \A i, j \in IndexRange(par.start_index, par.end_index) :
          i # j => PointAt(pts, i) # PointAt(pts, j)
    /\ \A i \in IndexRange(par.start_index, par.end_index) :
          scalarCrossProduct(
              PSub(PointAt(pts, i), PointAt(pts, par.start_index)),
              PSub(PointAt(pts, par.end_index), PointAt(pts, par.start_index))) = Zero

\* a step that is one iteration of the loop of fitLineRANSAC
LineIterationStep ==
    /\ pc = "fitLineRANSAC.score"
    /\ pc' = "fitLineRANSAC"

\* the best inlier count never decreases, and is the size of the range after
\* an iteration that drew two different indices
C15_BestCountGrowsToFull ==
    [][(CollinearRange /\ LineIterationStep) =>
          /\ loc'.max_score >= loc.max_score
          /\ loc'.drawn[1] # loc'.drawn[2] => loc'.max_score = num_of_points]_vars

\* the score returned is 1 in every run that had the count at the size of
\* the range, and is not 1 in the runs that never drew two different indices
\* on a range of more points than lie within delta of one of them
C15_FullCountReturnsOne ==
    [][(CollinearRange /\ pc = "fitLineRANSAC" /\ pc' = "done") =>
          (ret'.score = One <=> loc.max_score = num_of_points)]_vars

\* under the fair random source and with itr_limit beyond every count, the
\* best inlier count reaches the size of the range and stays there
C15_EventuallyFull ==
    (CollinearRange /\ pc = "fitLineRANSAC" /\ par.itr_limit = Unlimited)
        ~> [](pc # "call" /\ loc.max_score = num_of_points)

\* C15: on a range of at least two collinear points at pairwise distinct
\* positions with delta > 0, the best inlier count of fitLineRANSAC never
\* decreases from one iteration to the next and is the size of the range
\* from the first iteration that draws two different indices, the score
\* returned is then 1, and under a fair random source this happens
\* eventually as itr_limit grows.
C15_CollinearScoreConverges ==
    /\ C15_BestCountGrowsToFull
    /\ C15_FullCountReturnsOne
    /\ C15_EventuallyFull

\* a second iteration that drew two different indices after a first one that
\* drew one index twice and counted fewer points than the range has
C15_Witness ==
    /\ CollinearRange
    /\ pc = "fitLineRANSAC"
    /\ loc.itr_num = 2
    /\ loc.drawn[1] # loc.drawn[2]
    /\ loc.max_score = num_of_points
    /\ \E n \in loc.scores : n < num_of_points

(***************************************************************************)
(* The perpendicular test of mergeCoLinearLines                            *)
(***************************************************************************)
\* both end points of lj are closer than perp_dist_threshold to the line
\* through li
EndPointsNearLineOf(li, lj) ==
    /\ DistBelow(calcProjectedPointOnLine(li.start, li.end, lj.start, FALSE),
                 lj.start, par.perp_dist_threshold)
    /\ DistBelow(calcProjectedPointOnLine(li.start, li.end, lj.end, FALSE),
                 lj.end, par.perp_dist_threshold)

\* C16: mergeCoLinearLines merges segment j into segment i only when the
\* perpendicular test holds in both directions (both end points of j within
\* perp_dist_threshold of the line through i, and both end points of i within
\* it of the line through j), together with the gap and angle tests.
C16_MergeNeedsBothDirections ==
    (pc = "mergeCoLinearLines" /\ loc.merges > 0) =>
        LET li == loc.before[loc.pair[1]]
            lj == loc.before[loc.pair[2]]
        IN  /\ DistBelow(li.end, lj.start, par.distance_threshold)
            /\ AngularDistBelow(li, lj, par.angle_threshold)
            /\ EndPointsNearLineOf(li, lj)
            /\ EndPointsNearLineOf(lj, li)

(***************************************************************************)
(* Utils::mergeCloseLinesBF                                                *)
(***************************************************************************)
\* line_segments[i].start = line_segments[j].start; erase(begin() + j)
MergeStartInto(ls, i, j) ==
    LET grown == [ls EXCEPT ![i].start = ls[j].start]
    IN  SubSeq(grown, 1, j - 1) \o SubSeq(grown, j + 1, Len(grown))

\* the first test of mergeCloseLinesBF on l1 = line_segments[i] and
\* l2 = line_segments[i+skip_index]: angle, then end of l1 to start of l2
CloseLinesBFForward(l1, l2, distance_threshold, angle_threshold) ==
    /\ AngularDistBelow(l1, l2, angle_threshold)
    /\ DistBelow(l1.end, l2.start, distance_threshold)

\* the second test, reached when the first distance fails: end of l2 to
\* start of l1
CloseLinesBFBackward(l1, l2, distance_threshold, angle_threshold) ==
    /\ AngularDistBelow(l1, l2, angle_threshold)
    /\ DistBelow(l2.end, l1.start, distance_threshold)

\* the loop "while ( i+skip_index < line_segments.size() )", i counted from 1
RECURSIVE mergeCloseLinesBFInner(_, _, _, _, _)
mergeCloseLinesBFInner(ls, i, skip_index, distance_threshold, angle_threshold) ==
    IF ~(i + skip_index <= Len(ls)) THEN ls
    ELSE IF CloseLinesBFForward(ls[i], ls[i + skip_index],
                                distance_threshold, angle_threshold)
         THEN CHOOSE merged \in
                  {mergeCloseLinesBFInner(grown, i, skip_index,
                                          distance_threshold, angle_threshold) :
                      grown \in {MergeInto(ls, i, i + skip_index)}} : TRUE
         ELSE IF CloseLinesBFBackward(ls[i], ls[i + skip_index],
                                      distance_threshold, angle_threshold)
         THEN CHOOSE merged \in
                  {mergeCloseLinesBFInner(grown, i, skip_index,
                                          distance_threshold, angle_threshold) :
                      grown \in {MergeStartInto(ls, i, i + skip_index)}} : TRUE
         ELSE mergeCloseLinesBFInner(ls, i + 1, skip_index,
                                     distance_threshold, angle_threshold)

\* the loop "while ( skip_index < line_segments.size() )"
RECURSIVE mergeCloseLinesBFOuter(_, _, _, _)
mergeCloseLinesBFOuter(ls, skip_index, distance_threshold, angle_threshold) ==
    IF ~(skip_index < Len(ls)) THEN ls
    ELSE CHOOSE merged \in
             {mergeCloseLinesBFOuter(pass, skip_index + 1,
                                     distance_threshold, angle_threshold) :
                 pass \in {mergeCloseLinesBFInner(ls, 1, skip_index,
                                                  distance_threshold,
                                                  angle_threshold)}} : TRUE

mergeCloseLinesBF(ls, distance_threshold, angle_threshold) ==
    IF Len(ls) < 2 THEN ls
    ELSE mergeCloseLinesBFOuter(ls, 1, distance_threshold, angle_threshold)

\* mergeCloseLinesBF(line_segments, distance_threshold, angle_threshold),
\* called on the caller's vector, and again on its own output
CallMergeCloseLinesBF ==
    /\ \/ pc = "call"
       \/ pc = "done" /\ ret.fn = "mergeCloseLinesBF" /\ ret.calls < MaxCalls
    /\ lines' = mergeCloseLinesBF(lines, par.distance_threshold, par.angle_threshold)
    /\ ret' = [fn |-> "mergeCloseLinesBF",
               calls |-> IF pc = "call" THEN 1 ELSE ret.calls + 1,
               before |-> lines]
    /\ pc' = "done"
    /\ UNCHANGED <<pts, par, loc>>

NextMergeBF ==
    \/ CallMergeCloseLinesBF

SpecMergeBF == InitMerge /\ [][NextMergeBF]_vars

\* the pair (i, j), i before j, passes one of the two tests of mergeCloseLinesBF
QualifiesBF(ls, i, j) ==
    \/ CloseLinesBFForward(ls[i], ls[j], par.distance_threshold, par.angle_threshold)
    \/ CloseLinesBFBackward(ls[i], ls[j], par.distance_threshold, par.angle_threshold)

\* C17: mergeCloseLinesBF is idempotent: when it returns no pair of segments,
\* at any separation, passes its merge test, and applied again to its own
\* output it leaves the list unchanged.
C17_MergeCloseLinesBFIdempotent ==
    (pc = "done" /\ ret.fn = "mergeCloseLinesBF") =>
        /\ \A i, j \in 1..Len(lines) : i < j => ~QualifiesBF(lines, i, j)
        /\ ret.calls >= 2 => lines = ret.before

(***************************************************************************)
(* The overloads that take the whole cloud                                 *)
(*                                                                         *)
(* start_index and end_index are unsigned.  An unsigned value is held as   *)
(* two halves <<high, low>> of 16 bits each, so that pts.size()-1 wraps as *)
(* it does in the program.  A remainder by zero and a read of pts[i] with  *)
(* i >= pts.size() are undefined: the call then traps, or returns with any *)
(* of the listed scores.                                                   *)
(***************************************************************************)
UHalf == 65536

Unsigned(n) == <<(n \div UHalf) % UHalf, n % UHalf>>

UAdd(a, b) ==
    LET low == a[2] + b[2]
    IN  <<(a[1] + b[1] + (low \div UHalf)) % UHalf, low % UHalf>>

USub(a, b) ==
    LET low == a[2] - b[2]
        borrow == IF low < 0 THEN 1 ELSE 0
    IN  <<(a[1] - b[1] - borrow + 2 * UHalf) % UHalf, (low + UHalf) % UHalf>>

ULe(a, b) == a[1] < b[1] \/ (a[1] = b[1] /\ a[2] <= b[2])

\* pts.size()-1 as passed for the unsigned end_index
WholeEndIndex(p) == USub(Unsigned(Len(p)), Unsigned(1))

\* size_t num_of_points = end_index-start_index+1, computed in unsigned
NumOfPoints(start_index, end_index) == UAdd(USub(end_index, start_index), Unsigned(1))

\* pts[i] is an element of the cloud
InCloud(p, i) == i[1] = 0 /\ i[2] < Len(p)

AsIndex(i) == i[2]

\* (float)max_score/num_of_points with both zero
NaN == <<0, 0>>

\* what a call that ran into undefined behaviour may do
Undefined(fn, what) ==
    {[fn |-> fn, undefined |-> what, trapped |-> t, score |-> s] :
        t \in BOOLEAN, s \in {Zero, One, NaN}}

MaxWholePts == 3

MaxWholeItr == 1

\* no two points share their x, so that no fitted line needs the slope
\* of the clamped dx
WholeCloud == {Pt(0, 0), Pt(1, 0), Pt(2, 1)}

\* the clouds of the calls: the empty cloud, and the points of WholeCloud,
\* each at most once, in any order
WholeClouds ==
    {p \in SeqsUpTo(WholeCloud, MaxWholePts) :
        \A i, j \in 1..Len(p) : p[i] = p[j] => i = j}

InitWhole ==
    /\ pts \in WholeClouds
    /\ lines = <<>>
    /\ par \in [delta : {Rat(3, 4)}, itr_limit : 0..MaxWholeItr]
    /\ pc = "call"
    /\ loc = NoLocals
    /\ ret = NoReturn

\* the parameters of the call on the range that the overload makes
RangeCall(fn, end_index) ==
    [fn |-> fn, start_index |-> 0, end_index |-> AsIndex(end_index),
     delta |-> par.delta, itr_limit |-> par.itr_limit]

\* the parameters of a call that uses no index of the range
EmptyCall(fn) == [fn |-> fn, delta |-> par.delta, itr_limit |-> par.itr_limit]

\* the undefined operation fitLineRANSAC meets first when the range is not
\* inside the cloud: the remainder of the first draw, or, with no iteration,
\* the read of pts[index_1] and pts[index_2] after the loop
LineRansacUndefined(start_index, end_index) ==
    IF par.itr_limit > 0 /\ NumOfPoints(start_index, end_index) = Unsigned(0)
    THEN "remainder by zero"
    ELSE "read outside the cloud"

\* fitLineRANSAC(pts, m, c, delta, itr_limit) and the call it makes, up to
\* the loop
EnterLineRANSAC(fn) ==
    /\ pc = "call"
    /\ \E start_index \in {Unsigned(0)}, end_index \in {WholeEndIndex(pts)} :
          IF ULe(end_index, start_index)
          THEN /\ pc' = "done"
               /\ par' = RangeCall(fn, end_index)
               /\ ret' = [fn |-> "fitLineRANSAC", m |-> Zero, c |-> Zero,
                          score |-> Zero, scores |-> {}]
               /\ loc' = loc
          ELSE IF InCloud(pts, start_index) /\ InCloud(pts, end_index)
          THEN /\ pc' = "fitLineRANSAC"
               /\ par' = RangeCall(fn, end_index)
               /\ loc' = [fn |-> "fitLineRANSAC", itr_num |-> 0, max_score |-> 0,
                          index_1 |-> AsIndex(start_index),
                          index_2 |-> AsIndex(end_index),
                          scores |-> {}, drawn |-> <<>>]
               /\ ret' = ret
          ELSE /\ pc' = "done"
               /\ par' = EmptyCall(fn)
               /\ ret' \in Undefined(fn, LineRansacUndefined(start_index, end_index))
               /\ loc' = loc
    /\ UNCHANGED <<pts, lines>>

WholeFitLineRANSAC == EnterLineRANSAC("fitLineRANSAC")

WholeFitLineSegmentRANSAC == EnterLineRANSAC("fitLineSegmentRANSAC")

\* fitLineSegmentRANSAC after its call of fitLineRANSAC has returned: the
\* loop that bounds the segment
SegmentRansacBound ==
    /\ pc = "done"
    /\ par.fn = "fitLineSegmentRANSAC"
    /\ ret.fn = "fitLineRANSAC"
    /\ ret' = [fn |-> "fitLineSegmentRANSAC",
               line_segment |-> BoundSegment(pts, par.start_index, par.end_index,
                                             ret.m, ret.c, par.delta),
               score |-> ret.score]
    /\ UNCHANGED <<pts, lines, par, pc, loc>>

\* fitCircleRANSAC(pts, circle, delta, itr_limit) and the call it makes, up
\* to the loop; with no iteration the circle is left as passed and the score
\* is 0/num_of_points
WholeFitCircleRANSAC ==
    /\ pc = "call"
    /\ \E start_index \in {Unsigned(0)}, end_index \in {WholeEndIndex(pts)},
          circle \in CallerCircles :
          IF ULe(end_index, UAdd(start_index, Unsigned(1)))
          THEN /\ pc' = "done"
               /\ par' = RangeCall("fitCircleRANSAC", end_index)
               /\ ret' = [fn |-> "fitCircleRANSAC", circle |-> ZeroCircle,
                          passed |-> circle, score |-> Zero, scores |-> {}]
               /\ loc' = loc
          ELSE IF InCloud(pts, start_index) /\ InCloud(pts, end_index)
          THEN /\ pc' = "fitCircleRANSAC"
               /\ par' = RangeCall("fitCircleRANSAC", end_index)
               /\ loc' = [fn |-> "fitCircleRANSAC", itr_num |-> 0, max_score |-> 0,
                          circle |-> circle, passed |-> circle, scores |-> {},
                          drawn |-> <<>>]
               /\ ret' = ret
          ELSE /\ pc' = "done"
               /\ par' = EmptyCall("fitCircleRANSAC")
               /\ loc' = loc
               /\ IF par.itr_limit > 0
                  THEN ret' \in Undefined("fitCircleRANSAC",
                                          IF NumOfPoints(start_index, end_index) = Unsigned(0)
                                          THEN "remainder by zero"
                                          ELSE "read outside the cloud")
                  ELSE ret' = [fn |-> "fitCircleRANSAC", circle |-> circle,
                               passed |-> circle,
                               score |-> IF NumOfPoints(start_index, end_index) = Unsigned(0)
                                         THEN NaN ELSE Zero,
                               scores |-> {}]
    /\ UNCHANGED <<pts, lines>>

\* fitLineRegression(pts, line_segment, is_ordered): pts.size() < 2 is tested
\* before the indices are looked at
WholeFitLineRegression ==
    /\ pc = "call"
    /\ \E end_index \in {WholeEndIndex(pts)}, is_ordered \in BOOLEAN :
          /\ par' = EmptyCall("fitLineRegression")
          /\ IF Len(pts) < 2
             THEN ret' = [fn |-> "fitLineRegression", is_ordered |-> is_ordered,
                          line_segment |-> ZeroSegment, error |-> Zero]
             ELSE LET fit == fitLineRegression(pts, 0, AsIndex(end_index), is_ordered)
                  IN  ret' = [fn |-> "fitLineRegression", is_ordered |-> is_ordered,
                              line_segment |-> fit.line_segment, error |-> fit.error]
    /\ pc' = "done"
    /\ UNCHANGED <<pts, lines, loc>>

NextWhole ==
    \/ WholeFitLineRANSAC
    \/ WholeFitLineSegmentRANSAC
    \/ LineRansacDraw
    \/ LineRansacScore
    \/ LineRansacReturn
    \/ SegmentRansacBound
    \/ WholeFitCircleRANSAC
    \/ CircleRansacIter
    \/ CircleRansacReturn
    \/ WholeFitLineRegression

SpecWhole == InitWhole /\ [][NextWhole]_vars

\* the call of the overload has returned to its caller
WholeReturned == pc = "done" /\ "fn" \in DOMAIN par /\ ret.fn = par.fn

\* C18: an overload that takes the whole cloud, called with an empty cloud,
\* returns without having taken a remainder by zero or read outside the
\* cloud, and its result is the zero line, segment or circle with score or
\* error 0.
C18_EmptyCloudGivesZero ==
    (WholeReturned /\ pts = <<>>) =>
        /\ "undefined" \notin DOMAIN ret
        /\ ret.fn = "fitLineRANSAC" => ret.m = Zero /\ ret.c = Zero /\ ret.score = Zero
        /\ ret.fn = "fitLineSegmentRANSAC" =>
              ret.line_segment = ZeroSegment /\ ret.score = Zero
        /\ ret.fn = "fitCircleRANSAC" => ret.circle = ZeroCircle /\ ret.score = Zero
        /\ ret.fn = "fitLineRegression" =>
              ret.line_segment = ZeroSegment /\ ret.error = Zero

(***************************************************************************)
(* isAngleWithinBounds                                                     *)
(*                                                                         *)
(* Angles are multiples of pi/AngleSteps between -pi and pi, held as the   *)
(* number of steps.                                                        *)
(***************************************************************************)
AngleSteps == 4

Angles == (-AngleSteps)..AngleSteps

isAngleWithinBounds(angle, max_angle, min_angle) ==
    IF min_angle < max_angle
    THEN angle >= min_angle /\ angle <= max_angle
    ELSE angle <= min_angle /\ angle >= max_angle

InitAngle ==
    /\ pts = <<>>
    /\ lines = <<>>
    /\ par \in [angle : Angles, max_angle : Angles, min_angle : Angles]
    /\ pc = "call"
    /\ loc = NoLocals
    /\ ret = NoReturn

CallIsAngleWithinBounds ==
    /\ pc = "call"
    /\ ret' = [fn |-> "isAngleWithinBounds",
               within |-> isAngleWithinBounds(par.angle, par.max_angle, par.min_angle)]
    /\ pc' = "done"
    /\ UNCHANGED <<pts, lines, par, loc>>

NextAngle == CallIsAngleWithinBounds

SpecAngle == InitAngle /\ [][NextAngle]_vars

\* angle is met when turning counter-clockwise from min_angle to max_angle:
\* between the two when min_angle <= max_angle, and otherwise from min_angle
\* up to pi or from -pi up to max_angle
InSector(angle, max_angle, min_angle) ==
    IF min_angle <= max_angle
    THEN min_angle <= angle /\ angle <= max_angle
    ELSE min_angle <= angle \/ angle <= max_angle

\* C19: isAngleWithinBounds answers true exactly for the angles of the sector
\* swept counter-clockwise from min_angle to max_angle, also when
\* min_angle > max_angle and the sector crosses the -pi/+pi boundary.
C19_WithinBoundsIsCounterClockwiseSector ==
    pc = "done" =>
        (ret.within <=> InSector(par.angle, par.max_angle, par.min_angle))

(***************************************************************************)
(* convertToPointCloud3D of a sensor_msgs::PointCloud2                     *)
(*                                                                         *)
(* A point of the message is named by its position row * width + col; the  *)
(* three iterators move together and are held as one position, with        *)
(* height * width for end().  nan is the set of positions with a NaN       *)
(* coordinate.                                                             *)
(***************************************************************************)
MaxHeight == 3

MaxWidth == 4

MaxFactor == 3

InitConvert ==
    /\ pts = <<>>
    /\ lines = <<>>
    /\ par \in [height : 0..MaxHeight, width : 0..MaxWidth,
                row_sub_sample_factor : 1..MaxFactor,
                col_sub_sample_factor : 1..MaxFactor,
                nan : {{}} \cup {{i} : i \in 0..(MaxHeight * MaxWidth - 1)}]
    /\ \A i \in par.nan : i < par.height * par.width
    /\ pc = "call"
    /\ loc = NoLocals
    /\ ret = NoReturn

\* convertToPointCloud3D up to the loop
CallConvertToPointCloud3D ==
    /\ pc = "call"
    /\ IF par.height = 0 \/ par.width = 0
       THEN /\ pc' = "done"
            /\ ret' = [fn |-> "convertToPointCloud3D", points |-> <<>>]
            /\ loc' = loc
       ELSE LET row_sub_sample_factor == IF par.height = 1 THEN 1
                                         ELSE par.row_sub_sample_factor
                col_remainder == par.width % par.col_sub_sample_factor
            IN  /\ pc' = "convertToPointCloud3D"
                /\ loc' = [fn |-> "convertToPointCloud3D", points |-> <<>>,
                           col |-> 0, row |-> 0,
                           row_sub_sample_factor |-> row_sub_sample_factor,
                           row_skip_factor |->
                               par.width * (row_sub_sample_factor - 1) + col_remainder,
                           iter |-> 0]
                /\ ret' = ret
    /\ UNCHANGED <<pts, lines, par>>

\* while ( iter_x != iter_x.end() && row < cloud_msg.height )
ConvertLoopCond == loc.iter # par.height * par.width /\ loc.row < par.height

\* one pass of the loop
ConvertIter ==
    /\ pc = "convertToPointCloud3D"
    /\ ConvertLoopCond
    /\ LET points == IF loc.iter \notin par.nan THEN Append(loc.points, loc.iter)
                     ELSE loc.points
           col == loc.col + par.col_sub_sample_factor
       IN  IF col >= par.width
           THEN loc' = [loc EXCEPT !.points = points, !.col = 0,
                                   !.row = @ + loc.row_sub_sample_factor,
                                   !.iter = @ + loc.row_skip_factor]
           ELSE loc' = [loc EXCEPT !.points = points, !.col = col,
                                   !.iter = @ + par.col_sub_sample_factor]
    /\ UNCHANGED <<pts, lines, par, pc, ret>>

\* return points
ConvertReturn ==
    /\ pc = "convertToPointCloud3D"
    /\ ~ConvertLoopCond
    /\ ret' = [fn |-> "convertToPointCloud3D", points |-> loc.points]
    /\ pc' = "done"
    /\ UNCHANGED <<pts, lines, par, loc>>

NextConvert ==
    \/ CallConvertToPointCloud3D
    \/ ConvertIter
    \/ ConvertReturn

SpecConvert == InitConvert /\ [][NextConvert]_vars

\* the multiples of factor below n, in increasing order
RECURSIVE MultiplesBelow(_, _, _)
MultiplesBelow(k, factor, n) ==
    IF k >= n THEN <<>> ELSE <<k>> \o MultiplesBelow(k + factor, factor, n)

\* the positions at the rows that are multiples of rf and the columns that
\* are multiples of cf, row by row
RECURSIVE SubSampled(_, _, _, _)
SubSampled(rows, width, cols, k) ==
    IF k > Len(rows) THEN <<>>
    ELSE [c \in 1..Len(cols) |-> rows[k] * width + cols[c]]
             \o SubSampled(rows, width, cols, k + 1)

\* C20: for an organised cloud without NaN coordinates the returned points
\* are exactly those at the rows that are multiples of row_sub_sample_factor
\* and the columns that are multiples of col_sub_sample_factor, each once
\* and in row-major order; with both factors 1 these are all height * width
\* points, with both factors 2 and even height and width a quarter of them.
C20_SubSamplesRowsAndColumns ==
    (pc = "done" /\ par.height > 1 /\ par.width > 0 /\ par.nan = {}) =>
        /\ ret.points =
               SubSampled(MultiplesBelow(0, par.row_sub_sample_factor, par.height),
                          par.width,
                          MultiplesBelow(0, par.col_sub_sample_factor, par.width), 1)
        /\ (par.row_sub_sample_factor = 1 /\ par.col_sub_sample_factor = 1) =>
               ret.points = [i \in 1..(par.height * par.width) |-> i - 1]
        /\ (par.row_sub_sample_factor = 2 /\ par.col_sub_sample_factor = 2
              /\ par.height % 2 = 0 /\ par.width % 2 = 0) =>
               Len(ret.points) * 4 = par.height * par.width

(***************************************************************************)
(* calcAngleBetweenPoints                                                  *)
(*                                                                         *)
(* Angles are held in steps of pi/4, and the points are such that the      *)
(* two rays from b lie on the axes or the diagonals, where std::atan2 is a *)
(* whole number of such steps.                                             *)
(***************************************************************************)
MaxAngleCoord == 2

QuarterPi == 1

Pi == 4 * QuarterPi

AnglePoints == {Pt(x, y) : x \in 0..MaxAngleCoord, y \in (-1)..(MaxAngleCoord - 1)}

OnEightDirections(v) == v.x = Zero \/ v.y = Zero \/ RAbs(v.x) = RAbs(v.y)

\* std::atan2(y, x) of a vector on the axes or the diagonals
atan2(y, x) ==
    IF y = Zero THEN (IF RLt(x, Zero) THEN Pi ELSE 0)
    ELSE IF x = Zero THEN (IF RLt(Zero, y) THEN 2 * QuarterPi ELSE -(2 * QuarterPi))
    ELSE IF RLt(Zero, x) THEN (IF RLt(Zero, y) THEN QuarterPi ELSE -(QuarterPi))
    ELSE IF RLt(Zero, y) THEN 3 * QuarterPi
    ELSE -(3 * QuarterPi)

clipAngleMutNoWrap(raw_angle) == raw_angle

clipAngle(raw_angle) ==
    LET two_pi == 2 * Pi
        angle == IF Abs(raw_angle) > two_pi
                 THEN raw_angle - (raw_angle \div two_pi) * two_pi
                 ELSE raw_angle
    IN  IF angle > Pi THEN angle - two_pi
        ELSE IF angle < -Pi THEN angle + two_pi
        ELSE angle

calcAngleBetweenPoints(a, b, c) ==
    LET vec_b_a == PSub(a, b)
        vec_b_c == PSub(c, b)
    IN  clipAngle(atan2(vec_b_c.y, vec_b_c.x) - atan2(vec_b_a.y, vec_b_a.x))

InitAngleBetween ==
    /\ pts = <<>>
    /\ lines = <<>>
    /\ par \in [a : AnglePoints, b : AnglePoints, c : AnglePoints]
    /\ OnEightDirections(PSub(par.a, par.b))
    /\ OnEightDirections(PSub(par.c, par.b))
    /\ pc = "call"
    /\ loc = NoLocals
    /\ ret = NoReturn

CallCalcAngleBetweenPoints ==
    /\ pc = "call"
    /\ ret' = [fn |-> "calcAngleBetweenPoints",
               angle |-> calcAngleBetweenPoints(par.a, par.b, par.c)]
    /\ pc' = "done"
    /\ UNCHANGED <<pts, lines, par, loc>>

NextAngleBetween == CallCalcAngleBetweenPoints

SpecAngleBetween == InitAngleBetween /\ [][NextAngleBetween]_vars

\* the sign of a number, and the signs of the sine and the cosine of an
\* angle of [-pi, pi] given in steps
SignOf(r) == IF RLt(r, Zero) THEN -1 ELSE IF RLt(Zero, r) THEN 1 ELSE 0

SinSign(angle) ==
    IF angle = 0 \/ Abs(angle) = Pi THEN 0 ELSE IF angle > 0 THEN 1 ELSE -1

CosSign(angle) ==
    IF 2 * Abs(angle) < Pi THEN 1
    ELSE IF 2 * Abs(angle) = Pi THEN 0 ELSE -1

AngleBetweenOf(a, b, c, angle) ==
    pc = "done" /\ par.a = a /\ par.b = b /\ par.c = c => ret.angle = angle

\* C21: calcAngleBetweenPoints(a, b, c) lies in [-pi, pi], differs from
\* atan2 of (c-b) minus atan2 of (a-b) by a multiple of 2 pi, and is the
\* signed turn from the ray b->a to the ray b->c: its sine and cosine have
\* the signs of the cross and the dot product of (a-b) and (c-b).  The
\* three examples give -3pi/4, pi/4 and -3pi/4.
C21_AngleBetweenPointsIsSignedTurn ==
    /\ pc = "done" =>
          LET vec_b_a == PSub(par.a, par.b)
              vec_b_c == PSub(par.c, par.b)
          IN  /\ ret.angle \in (-Pi)..Pi
              /\ (ret.angle - (atan2(vec_b_c.y, vec_b_c.x) - atan2(vec_b_a.y, vec_b_a.x)))
                     % (2 * Pi) = 0
              /\ (vec_b_a # Origin /\ vec_b_c # Origin) =>
                    /\ SinSign(ret.angle) = SignOf(scalarCrossProduct(vec_b_a, vec_b_c))
                    /\ CosSign(ret.angle) = SignOf(dotProduct(vec_b_a, vec_b_c))
    /\ AngleBetweenOf(Pt(0, 0), Pt(1, 0), Pt(2, 1), -(3 * QuarterPi))
    /\ AngleBetweenOf(Pt(0, 1), Pt(1, 0), Pt(0, 0), QuarterPi)
    /\ AngleBetweenOf(Pt(2, -1), Pt(1, 0), Pt(0, 0), -(3 * QuarterPi))

\* the third example has returned: the difference 5pi/4 was wrapped
C21_Witness ==
    /\ pc = "done"
    /\ par = [a |-> Pt(2, -1), b |-> Pt(1, 0), c |-> Pt(0, 0)]
    /\ ret.angle = -(3 * QuarterPi)

(***************************************************************************)
(* The merge loop of applyPiecewiseRegression                              *)
(*                                                                         *)
(* The clouds are ordered in x with y in 0..1, and one cloud of four       *)
(* points whose only merge has an error of 2 * 10^6.                       *)
(***************************************************************************)
MaxLoopPts == 6

HighY == 1000

HighCloud == <<Pt(0, 0), Pt(1, HighY), Pt(1, -HighY), Pt(2, 0)>>

\* the clouds of length n with the k-th point at x = k - 1
RECURSIVE LoopCloudsOf(_)
LoopCloudsOf(n) ==
    IF n = 0 THEN {<<>>}
    ELSE {Append(p, Pt(n - 1, y)) : p \in LoopCloudsOf(n - 1), y \in 0..1}

LoopClouds == UNION {LoopCloudsOf(n) : n \in 0..MaxLoopPts} \cup {HighCloud}

LoopThresholds == {Rat(1, 10), One, RI(LargeError)}

InitMergeLoop ==
    /\ pts \in LoopClouds
    /\ lines = <<>>
    /\ par \in [error_threshold : LoopThresholds]
    /\ pc = "call"
    /\ loc = NoLocals
    /\ ret = NoReturn

NextMergeLoop ==
    \/ CallApplyPiecewiseRegression
    \/ MergeIter
    \/ MergeReturn

SpecMergeLoop == InitMergeLoop /\ [][NextMergeLoop]_vars

\* the merge error of every adjacent pair of the current segments, fitted
\* from the points
PairErrors ==
    [k \in 1..(Len(loc.segments) - 1) |->
        RangeError(pts, loc.segments[k].start_index, loc.segments[k + 1].end_index)]

\* a pass of the merge loop that merges, and the position of the pair it
\* merges: the first segment that changes
MergeIterationStep ==
    pc = "applyPiecewiseRegression" /\ pc' = "applyPiecewiseRegression" /\ loc' # loc

MergedPair ==
    CHOOSE i \in 1..Len(loc.segments) :
        /\ i > Len(loc'.segments) \/ loc'.segments[i] # loc.segments[i]
        /\ \A k \in 1..(i - 1) : loc'.segments[k] = loc.segments[k]

MergeLoopExit == pc = "applyPiecewiseRegression" /\ pc' = "done"

\* C22: the pair merged in a pass of the merge loop has the lowest merge
\* error of all adjacent pairs and that error is not above error_threshold;
\* the loop is left only with one segment or with every merge error above
\* error_threshold.
C22_MergesLowestPairWithinThreshold ==
    [][\E errors \in {IF pc = "applyPiecewiseRegression" THEN PairErrors ELSE <<>>} :
          /\ MergeIterationStep =>
                \E i \in {MergedPair} :
                    /\ \A k \in DOMAIN errors : RLe(errors[i], errors[k])
                    /\ RLe(errors[i], par.error_threshold)
          /\ MergeLoopExit =>
                \/ Len(loc.segments) = 1
                \/ \A k \in DOMAIN errors : RLt(par.error_threshold, errors[k])]_vars

\* the number of points of the k-th segment
SegmentSize(k) == loc.segments[k].end_index - loc.segments[k].start_index + 1

\* C23: at the head of the merge loop of applyPiecewiseRegression the
\* segments are consecutive index ranges of at least 2 points that cover
\* 0..n-1 in order, there is one error less than there are segments, and
\* errors[k] is the regression error of the range from the start of segment
\* k to the end of segment k+1; before the first merge the segments are
\* pairs, the last one a triple when n is odd.
C23_MergeLoopInvariant ==
    pc = "applyPiecewiseRegression" =>
        /\ Len(loc.segments) >= 1
        /\ loc.segments[1].start_index = 0
        /\ loc.segments[Len(loc.segments)].end_index = Len(pts) - 1
        /\ \A k \in 1..(Len(loc.segments) - 1) :
              loc.segments[k + 1].start_index = loc.segments[k].end_index + 1
        /\ \A k \in 1..Len(loc.segments) : SegmentSize(k) >= 2
        /\ Len(loc.errors) = Len(loc.segments) - 1
        /\ loc.errors = PairErrors
        /\ Len(loc.segments) = Len(pts) \div 2 =>
              \A k \in 1..Len(loc.segments) :
                  SegmentSize(k) = IF k = Len(loc.segments) THEN 2 + (Len(pts) % 2) ELSE 2

\* the loop head after a merge that left more than one segment, whose
\* errors were fitted again
C23_Witness ==
    /\ pc = "applyPiecewiseRegression"
    /\ Len(loc.segments) < Len(pts) \div 2
    /\ Len(loc.errors) >= 1
    /\ loc.errors[1] # Zero

(***************************************************************************)
(* The split loop of applyPiecewiseRegressionSplit                         *)
(***************************************************************************)
MaxSplitPts == 7

SplitClouds == UNION {LoopCloudsOf(n) : n \in 0..MaxSplitPts}

SplitThresholds == {Zero, Rat(1, 10), Rat(1, 2)}

InitSplitLoop ==
    /\ pts \in SplitClouds
    /\ lines = <<>>
    /\ par \in [error_threshold : SplitThresholds]
    /\ pc = "call"
    /\ loc = NoLocals
    /\ ret = NoReturn

NextSplitLoop ==
    \/ CallApplyPiecewiseRegressionSplit
    \/ SplitIter
    \/ SplitReturn

SpecSplitLoop == InitSplitLoop /\ [][NextSplitLoop]_vars

\* the index ranges of the segments the call returned, in order
ReturnedRanges ==
    IF Len(pts) < 2 THEN <<>>
    ELSE IF loc = NoLocals THEN <<RegressionLineSegment(0, Len(pts) - 1)>>
    ELSE SelectSeq(loc.segments, LAMBDA g : g.start_index # g.end_index)

SplitReturned == pc = "done" /\ ret.fn = "applyPiecewiseRegressionSplit"

SegmentErrors ==
    [k \in 1..Len(loc.segments) |->
        RangeError(pts, loc.segments[k].start_index, loc.segments[k].end_index)]

\* the first of the positions with the highest error
FirstHighest(errors) ==
    CHOOSE i \in DOMAIN errors :
        /\ \A k \in DOMAIN errors : RLe(errors[k], errors[i])
        /\ \A k \in 1..(i - 1) : RLt(errors[k], errors[i])

SplitIterationStep ==
    pc = "applyPiecewiseRegressionSplit" /\ pc' = "applyPiecewiseRegressionSplit"
        /\ loc' # loc

SplitPosition ==
    CHOOSE i \in 1..Len(loc.segments) :
        /\ loc'.segments[i] # loc.segments[i]
        /\ \A k \in 1..(i - 1) : loc'.segments[k] = loc.segments[k]

\* the squared distance of pts[j] to the chord from pts[s] to pts[e]
ChordDist(s, e, j) ==
    calcSquaredDistToLine(PointAt(pts, s), PointAt(pts, e), PointAt(pts, j), TRUE)

\* the call returns from "call" or from the loop
SplitCallReturns ==
    pc \in {"call", "applyPiecewiseRegressionSplit"} /\ pc' = "done" /\ Len(pts) >= 2

\* segment i of the current segments is replaced by [s, k] and [k+1, e]
SplitsAt(i, k) ==
    /\ Len(loc'.segments) = Len(loc.segments) + 1
    /\ loc'.segments[i].start_index = loc.segments[i].start_index
    /\ loc'.segments[i].end_index = k
    /\ loc'.segments[i + 1].start_index = k + 1
    /\ loc'.segments[i + 1].end_index = loc.segments[i].end_index
    /\ \A j \in (i + 1)..Len(loc.segments) :
          /\ loc'.segments[j + 1].start_index = loc.segments[j].start_index
          /\ loc'.segments[j + 1].end_index = loc.segments[j].end_index

C26_SplitLoopInvariant ==
    /\ pc = "applyPiecewiseRegressionSplit" =>
          /\ Len(loc.segments) >= 1
          /\ loc.segments[1].start_index = 0
          /\ loc.segments[Len(loc.segments)].end_index = Len(pts) - 1
          /\ \A k \in 1..Len(loc.segments) :
                /\ 0 <= loc.segments[k].start_index
                /\ loc.segments[k].start_index <= loc.segments[k].end_index
                /\ loc.segments[k].line_segment =
                       RangeSegment(pts, loc.segments[k].start_index,
                                    loc.segments[k].end_index)
          /\ \A k \in 1..(Len(loc.segments) - 1) :
                loc.segments[k + 1].start_index = loc.segments[k].end_index + 1
          /\ Len(loc.errors) = Len(loc.segments)
          /\ loc.errors = SegmentErrors
    /\ SplitReturned =>
          /\ Len(lines) = Len(ReturnedRanges)
          /\ \A k \in 1..Len(ReturnedRanges) :
                /\ ReturnedRanges[k].end_index > ReturnedRanges[k].start_index
                /\ lines[k] = RangeSegment(pts, ReturnedRanges[k].start_index,
                                           ReturnedRanges[k].end_index)
          /\ loc # NoLocals =>
                \A i \in 0..(Len(pts) - 1) :
                    \/ \E k \in 1..Len(ReturnedRanges) :
                          /\ ReturnedRanges[k].start_index <= i
                          /\ i <= ReturnedRanges[k].end_index
                    \/ \E k \in 1..Len(loc.segments) :
                          /\ loc.segments[k].start_index = i
                          /\ loc.segments[k].end_index = i

\* the call has returned fewer segments than the loop held: a single-index
\* range was left out
C26_Witness ==
    /\ SplitReturned
    /\ loc # NoLocals
    /\ Len(lines) < Len(loc.segments)
    /\ Len(lines) >= 2

(***************************************************************************)
(* One pass of mergeCloseLines                                             *)
(***************************************************************************)
MaxPassSegs == 3

InitOnePass ==
    /\ pts = <<>>
    /\ lines \in SeqsUpTo(CoLinearSegments, MaxPassSegs)
    /\ par \in [distance_threshold : DistanceThresholds,
                angle_threshold : AngleThresholds]
    /\ pc = "call"
    /\ loc = NoLocals
    /\ ret = NoReturn

NextOnePass == CallMergeCloseLines

SpecOnePass == InitOnePass /\ [][NextOnePass]_vars

\* one pass from left to right over ls from position k on, with current the
\* segment being grown: the next segment is joined to it when it is close in
\* distance and angle, and otherwise current is put out and the next segment
\* becomes the one being grown
RECURSIVE OnePass(_, _, _)
OnePass(ls, k, current) ==
    IF k > Len(ls) THEN <<current>>
    ELSE IF /\ DistBelow(current.end, ls[k].start, par.distance_threshold)
            /\ AngularDistBelow(current, ls[k], par.angle_threshold)
         THEN OnePass(ls, k + 1, LineSegment2D(current.start, ls[k].end))
         ELSE <<current>> \o OnePass(ls, k + 1, ls[k])

\* C27: mergeCloseLines returns what one pass from left to right gives, in
\* which a segment is joined to the segment grown so far exactly when the
\* gap from its end to the next start is below distance_threshold and the
\* angle between them is below angle_threshold; the output has no more
\* segments than the input, keeps the first start and the last end, and a
\* list of fewer than 2 segments comes back unchanged.
C27_MergeCloseLinesIsOnePass ==
    (pc = "done" /\ ret.fn = "mergeCloseLines") =>
        /\ Len(ret.before) < 2 => lines = ret.before
        /\ Len(ret.before) >= 1 =>
              /\ lines = OnePass(ret.before, 2, ret.before[1])
              /\ lines[1].start = ret.before[1].start
              /\ lines[Len(lines)].end = ret.before[Len(ret.before)].end
        /\ Len(lines) <= Len(ret.before)
        /\ \A k \in 1..Len(lines) :
              \E a, b \in 1..Len(ret.before) :
                  /\ a <= b
                  /\ lines[k].start = ret.before[a].start
                  /\ lines[k].end = ret.before[b].end

\* a call on a full list has merged its first two segments and compared
\* the result with the third, which it kept
C27_Witness ==
    /\ pc = "done" /\ ret.fn = "mergeCloseLines" /\ ret.calls = 1
    /\ Len(ret.before) >= 3
    /\ Len(lines) = Len(ret.before) - 1
    /\ lines[1].end = ret.before[2].end
    /\ lines[1] # ret.before[1]

(***************************************************************************)
(* fitLineSegmentsRANSAC                                                   *)
(*                                                                         *)
(* A call of fitLineSegmentRANSAC on a range is taken with any of the      *)
(* results its draws can give: the best pair is one of the pairs drawn, and *)
(* any pair of indices of the range can be the best of the pairs drawn.    *)
(***************************************************************************)
MaxSegmentsPts == 5

MaxSegmentsItr == 1

\* the pairs fitLineRANSAC can end with, and the number of inliers of each:
\* start_index and end_index with 0 when no draw scored
BestPairs(p, start_index, end_index, delta, itr_limit) ==
    IF itr_limit = 0 THEN {<<start_index, end_index, 0>>}
    ELSE {CHOOSE best \in
              {IF score > 0 THEN <<ind_1, ind_2, score>>
               ELSE <<start_index, end_index, 0>> :
                  score \in {Cardinality(LineInliers(p, start_index, end_index,
                                                     ind_1, ind_2, delta))}} : TRUE :
             ind_1 \in IndexRange(start_index, end_index),
             ind_2 \in IndexRange(start_index, end_index)}

\* what fitLineSegmentRANSAC can return on the range: the score and the
\* segment written
LineSegmentFits(p, start_index, end_index, delta, itr_limit) ==
    IF end_index <= start_index
    THEN {[score |-> Zero,
           line_segment |-> BoundSegment(p, start_index, end_index, Zero, Zero, delta)]}
    ELSE {CHOOSE fit \in
              {[score |-> Rat(best[3], end_index - start_index + 1),
                line_segment |-> BoundSegment(p, start_index, end_index,
                                              through.m, through.c, delta)] :
                  through \in {LineThrough(PointAt(p, best[1]), PointAt(p, best[2]))}} : TRUE :
             best \in BestPairs(p, start_index, end_index, delta, itr_limit)}

\* the scan for the lowest score: i = 0, lowest_score = 0, and
\* if ( score < lowest_score ) for every j in turn
LowestScore(scores) == ScanLowest(scores, 1, 1, Zero)

InitSegmentsRANSAC ==
    /\ pts \in UNION {LoopCloudsOf(n) : n \in 0..MaxSegmentsPts}
    /\ lines = <<>>
    /\ par \in [score_threshold : {Rat(1, 2), Rat(9, 10)},
                delta : {Rat(1, 4)},
                itr_limit : 0..MaxSegmentsItr]
    /\ pc = "call"
    /\ loc = NoLocals
    /\ ret = NoReturn

\* fitLineSegmentsRANSAC up to its loop
CallFitLineSegmentsRANSAC ==
    /\ pc = "call"
    /\ IF Len(pts) < 2
       THEN /\ pc' = "done"
            /\ lines' = <<>>
            /\ ret' = [fn |-> "fitLineSegmentsRANSAC"]
            /\ loc' = loc
       ELSE \E fit \in LineSegmentFits(pts, 0, Len(pts) - 1, par.delta, par.itr_limit) :
               IF RLt(par.score_threshold, fit.score)
               THEN /\ pc' = "done"
                    /\ lines' = <<fit.line_segment>>
                    /\ ret' = [fn |-> "fitLineSegmentsRANSAC"]
                    /\ loc' = loc
               ELSE /\ pc' = "fitLineSegmentsRANSAC"
                    /\ loc' = [fn |-> "fitLineSegmentsRANSAC",
                               segments |-> <<[start_index |-> 0,
                                               end_index |-> Len(pts) - 1,
                                               line_segment |-> fit.line_segment]>>,
                               scores |-> <<fit.score>>]
                    /\ UNCHANGED <<lines, ret>>
    /\ UNCHANGED <<pts, par>>

\* the loop is left: the lowest score found is above the threshold, or the
\* segment selected holds fewer than four points
SegmentsRansacStop ==
    LET worst == LowestScore(loc.scores)
    IN  \/ RLt(par.score_threshold, worst.lowest_error)
        \/ loc.segments[worst.i].end_index - loc.segments[worst.i].start_index < 3

\* one pass of the loop that splits
SegmentsRansacIter ==
    /\ pc = "fitLineSegmentsRANSAC"
    /\ ~SegmentsRansacStop
    /\ \E i \in {LowestScore(loc.scores).i} :
       \E split_pt_index \in {SplitPoint(pts, loc.segments[i].start_index,
                                         loc.segments[i].end_index)} :
       \E first \in LineSegmentFits(pts, loc.segments[i].start_index, split_pt_index,
                                    par.delta, par.itr_limit),
          second \in LineSegmentFits(pts, split_pt_index + 1, loc.segments[i].end_index,
                                     par.delta, par.itr_limit) :
          loc' = [loc EXCEPT
                     !.segments =
                         InsertAt([@ EXCEPT ![i] =
                                      [start_index |-> split_pt_index + 1,
                                       end_index |-> loc.segments[i].end_index,
                                       line_segment |-> second.line_segment]],
                                  i,
                                  [start_index |-> loc.segments[i].start_index,
                                   end_index |-> split_pt_index,
                                   line_segment |-> first.line_segment]),
                     !.scores = InsertAt([@ EXCEPT ![i] = second.score], i, first.score)]
    /\ UNCHANGED <<pts, lines, par, pc, ret>>

\* the loop is left and the segments are returned
SegmentsRansacReturn ==
    /\ pc = "fitLineSegmentsRANSAC"
    /\ SegmentsRansacStop
    /\ lines' = [k \in 1..Len(loc.segments) |-> loc.segments[k].line_segment]
    /\ ret' = [fn |-> "fitLineSegmentsRANSAC"]
    /\ pc' = "done"
    /\ UNCHANGED <<pts, par, loc>>

NextSegmentsRANSAC ==
    \/ CallFitLineSegmentsRANSAC
    \/ SegmentsRansacIter
    \/ SegmentsRansacReturn

SpecSegmentsRANSAC == InitSegmentsRANSAC /\ [][NextSegmentsRANSAC]_vars

\* a pass of the loop that splits, and the segment it splits: the first
\* segment that changes its range
SegmentsSplitStep ==
    pc = "fitLineSegmentsRANSAC" /\ pc' = "fitLineSegmentsRANSAC"
        /\ Len(loc'.segments) = Len(loc.segments) + 1

SegmentSplit ==
    CHOOSE i \in 1..Len(loc.segments) :
        /\ loc'.segments[i].end_index # loc.segments[i].end_index
        /\ \A k \in 1..(i - 1) : loc'.segments[k].end_index = loc.segments[k].end_index

\* C28: the segment split in a pass of the loop of fitLineSegmentsRANSAC has
\* the lowest score of the current segments, that score is not above
\* score_threshold, and the segment holds at least 4 points.
C28_SplitsLowestScoreUntilAboveThreshold ==
    [][SegmentsSplitStep =>
          \E i \in {SegmentSplit} :
              /\ \A k \in 1..Len(loc.scores) : RLe(loc.scores[i], loc.scores[k])
              /\ RLe(loc.scores[i], par.score_threshold)
              /\ loc.segments[i].end_index - loc.segments[i].start_index >= 3]_vars

(***************************************************************************)
(* fitCircleRANSAC without a scoring candidate                             *)
(***************************************************************************)
\* no iteration gave a candidate with an inlier: every draw was collinear
\* (no score recorded), or every candidate scored 0, or there was no draw
NoCandidateScored == ret.scores \subseteq {0}

\* C29: when fitCircleRANSAC runs on a range of at least 3 points and no
\* iteration gives a candidate with at least one inlier, it returns score 0
\* and the circle argument holds what the caller passed; on a too-small range
\* the circle argument is set to the zero circle.
C29_NoCandidateLeavesCircle ==
    Returned("fitCircleRANSAC") =>
        IF par.end_index <= par.start_index + 1
        THEN ret.circle = ZeroCircle /\ ret.score = Zero
        ELSE NoCandidateScored => ret.score = Zero /\ ret.circle = ret.passed

\* a call on three collinear points or more with draws made, none of which
\* scored, and a caller's circle that is not the zero circle
C29_Witness ==
    /\ Returned("fitCircleRANSAC")
    /\ par.end_index > par.start_index + 1
    /\ par.itr_limit > 0
    /\ NoCandidateScored
    /\ ret.passed # ZeroCircle
    /\ ret.circle = ret.passed

(***************************************************************************)
(* LineSegment2D::intersects and calcIntersectionPointWith                 *)
(*                                                                         *)
(* A quotient 0/0 is NaN; every comparison with NaN is false.              *)
(***************************************************************************)
MaxSegCoord == 2

\* the value of is_outside_allowed in a call that does not pass it
DefaultIsOutsideAllowed == FALSE

\* a / b for floats, 0/0 included
FDiv(a, b) == IF b = Zero THEN (IF a = Zero THEN NaN ELSE <<a[1], 0>>) ELSE RDiv(a, b)

\* a + b for floats, NaN included
FAdd(a, b) == IF a = NaN \/ b = NaN THEN NaN ELSE RAdd(a, b)

\* a < b for floats, NaN included
FLt(a, b) == a # NaN /\ b # NaN /\ RLt(a, b)

\* std::min(a, b) is (b < a) ? b : a, and std::max(a, b) is (a < b) ? b : a
StdMin(a, b) == IF FLt(b, a) THEN b ELSE a

StdMax(a, b) == IF FLt(a, b) THEN b ELSE a

\* std::fabs(x) > 1e-10f
AboveInverse(x, k1, k2) == x[1] > (x[2] \div k1) \div k2

\* this->calcIntersectionPointWith(line_segment, intersection_point,
\* is_outside_allowed): the value returned and the point left in
\* intersection_point
calcIntersectionPointWith(this, line_segment, intersection_point, is_outside_allowed) ==
    LET vec1 == PSub(this.end, this.start)
        vec2 == PSub(line_segment.end, line_segment.start)
        vec3 == PSub(line_segment.start, this.start)
        Decide(vec1_cross_vec2, vec3_cross_vec1, vec3_cross_vec2) ==
            IF /\ BelowInverse(RAbs(vec1_cross_vec2), TenPow5, TenPow5)
               /\ BelowInverse(RAbs(vec3_cross_vec1), TenPow5, TenPow5)
            THEN LET t0 == FDiv(dotProduct(vec3, vec1), dotProduct(vec1, vec1))
                     t1 == FAdd(t0, FDiv(dotProduct(vec2, vec1), dotProduct(vec1, vec1)))
                     are_lines_opposite == FLt(dotProduct(vec2, vec1), Zero)
                 IN  IF \/ ~are_lines_opposite /\ (FLt(One, t0) \/ FLt(t1, Zero))
                        \/ are_lines_opposite /\ (FLt(One, t1) \/ FLt(t0, Zero))
                     THEN [found |-> FALSE, intersection_point |-> intersection_point]
                     ELSE [found |-> TRUE,
                           intersection_point |->
                               PAdd(this.start,
                                    PScale(vec1, StdMax(Zero, StdMin(t0, t1))))]
            ELSE IF /\ BelowInverse(RAbs(vec1_cross_vec2), TenPow5, TenPow5)
                    /\ AboveInverse(RAbs(vec3_cross_vec1), TenPow5, TenPow5)
            THEN [found |-> FALSE, intersection_point |-> intersection_point]
            ELSE LET t == FDiv(vec3_cross_vec2, vec1_cross_vec2)
                     u == FDiv(vec3_cross_vec1, vec1_cross_vec2)
                 IN  IF /\ AboveInverse(RAbs(vec1_cross_vec2), TenPow5, TenPow5)
                        /\ ~is_outside_allowed
                        /\ (FLt(t, Zero) \/ FLt(One, t) \/ FLt(u, Zero) \/ FLt(One, u))
                     THEN [found |-> FALSE, intersection_point |-> intersection_point]
                     ELSE [found |-> TRUE,
                           intersection_point |-> PAdd(this.start, PScale(vec1, t))]
    IN  CHOOSE r \in {Decide(c12, c31, c32) :
                         c12 \in {scalarCrossProduct(vec1, vec2)},
                         c31 \in {scalarCrossProduct(vec3, vec1)},
                         c32 \in {scalarCrossProduct(vec3, vec2)}} : TRUE

\* this->intersects(line_segment)
intersects(this, line_segment) ==
    calcIntersectionPointWith(this, line_segment, Origin, DefaultIsOutsideAllowed).found

SegmentPoints == {Pt(x, y) : x \in 0..MaxSegCoord, y \in 0..MaxSegCoord}

\* lines[1] is the segment the member function is called on, lines[2] its
\* argument
InitIntersect ==
    /\ pts = <<>>
    /\ lines \in {<<LineSegment2D(a, b), LineSegment2D(c, d)>> :
                     a \in SegmentPoints, b \in SegmentPoints,
                     c \in SegmentPoints, d \in SegmentPoints}
    /\ par = [intersection_point |-> Pt(-1, -1)]
    /\ pc = "call"
    /\ loc = NoLocals
    /\ ret = NoReturn

CallIntersects ==
    /\ pc = "call"
    /\ ret' = [fn |-> "intersects", value |-> intersects(lines[1], lines[2])]
    /\ pc' = "done"
    /\ UNCHANGED <<pts, lines, par, loc>>

CallCalcIntersectionPointWith ==
    /\ pc = "call"
    /\ \E is_outside_allowed \in BOOLEAN :
       \E r \in {calcIntersectionPointWith(lines[1], lines[2], par.intersection_point,
                                           is_outside_allowed)} :
          ret' = [fn |-> "calcIntersectionPointWith",
                  is_outside_allowed |-> is_outside_allowed,
                  value |-> r.found, intersection_point |-> r.intersection_point]
    /\ pc' = "done"
    /\ UNCHANGED <<pts, lines, par, loc>>

NextIntersect ==
    \/ CallIntersects
    \/ CallCalcIntersectionPointWith

SpecIntersect == InitIntersect /\ [][NextIntersect]_vars

\* the point p lies on the segment s
LiesOn(p, s) ==
    LET d == PSub(s.end, s.start)
        v == PSub(p, s.start)
    IN  /\ scalarCrossProduct(v, d) = Zero
        /\ RLe(Zero, dotProduct(v, d))
        /\ RLe(dotProduct(v, d), dotProduct(d, d))

\* C30: intersects is symmetric, zero-length segments included, and a
\* zero-length segment that does not lie on the other segment is not reported
\* as intersecting it.
C30_IntersectsIsSymmetric ==
    Returned("intersects") =>
        /\ ret.value = intersects(lines[2], lines[1])
        /\ (lines[1].start = lines[1].end /\ ~LiesOn(lines[1].start, lines[2]))
               => ~ret.value

\* the same on segments of positive length
C30_SymmetricOnProperSegments ==
    (Returned("intersects") /\ lines[1].start # lines[1].end
                            /\ lines[2].start # lines[2].end) =>
        ret.value = intersects(lines[2], lines[1])

=============================================================================
